---------------------------- MODULE Spec2Model ----------------------------
(***************************************************************************)
(* Order-entry assistant (DaleDenham88/order-entry-ai).                    *)
(*                                                                         *)
(* The repository holds two generations of the turn handler:               *)
(*   - the option-selection handler, src/app/api/process-order/route.ts,   *)
(*     with parseUserRequest / parseUserResponse / tryDirectMatch /        *)
(*     buildLineItem of src/unnamed/part_001 (lines 1-462), the catalog    *)
(*     lookup of src/unnamed/part_002 and findSynonymMatch of              *)
(*     src/lib/examples.ts;                                                *)
(*   - the question-driven handler, src/unnamed/part_004, with             *)
(*     extractInfoFromResponse / generateClarifyingQuestions /             *)
(*     buildLineItem of src/lib/ai-assistant.ts (lines 293-760).           *)
(* Both are modelled, each under its own specification.                    *)
(*                                                                         *)
(* Conventions.                                                            *)
(*   - A JavaScript value that may be undefined/null is a sequence of      *)
(*     length at most one: None is <<>>, Some(v) is <<v>>.                 *)
(*   - A string is a sequence of words (each word a TLA+ string that keeps *)
(*     its letter case); String.includes is containment of a contiguous    *)
(*     run of words and toLowerCase acts word by word.  The vocabulary is  *)
(*     chosen so that no word is a proper substring of another word, which *)
(*     makes the word-level reading of includes exact on it.               *)
(*   - Prices are integers (cents).                                        *)
(***************************************************************************)
EXTENDS Integers, Sequences, FiniteSets, TLC

VARIABLES
    conversationState,  \* page.tsx: the ConversationState the client holds (None: null)
    response,           \* the JSON response of the last process-order request
    lastTurn,           \* what the last request carried and what was extracted from it
    legacyState,        \* part_004: the ConversationState the client holds
    legacyResponse,     \* part_004: the response of the last request
    priceIn,            \* the ConversationState handed to buildLineItem (pricing spec)
    priceOut,           \* the value buildLineItem returned for priceIn
    firstIn,            \* a parsed request and the snapshot its lookup returned
                        \* (first-turn spec)
    questionsIn,        \* the arguments of generateClarifyingQuestions and the
                        \* oracle's reply to its prompt (questions spec)
    questionsOut,       \* the questions the generations of the function returned
    debugLogs,          \* part_002 line 23: the module-level array of debug entries
                        \* (followed in the debug-log spec; the dialogue serves one
                        \* request at a time and its state does not depend on it)
    inFlight,           \* the process-order requests being served by one process:
                        \* where each one is, what it logged, what it returned
                        \* (debug-log spec)
    deployed            \* which of the two handlers serves /api/process-order

vars == <<conversationState, response, lastTurn, legacyState, legacyResponse,
          priceIn, priceOut, firstIn, questionsIn, questionsOut, debugLogs, inFlight,
          deployed>>

---------------------------------------------------------------------------
(* Bounds of the model. *)

MaxQty == 4

\* the most debug entries one request logs
MaxLogEntries == 2

MaxColors == 3

---------------------------------------------------------------------------
(* JavaScript values. *)

None == <<>>

Some(v) == <<v>>

IsSet(o) == o # None

\* JS truthiness of a number that may be undefined: undefined and 0 are falsy.
TruthyNum(o) == o # None /\ o[1] # 0

\* JS truthiness of a string that may be undefined: undefined and "" are falsy.
TruthyStr(o) == o # None /\ o[1] # <<>>

\* a || b on numbers and on strings
OrNum(a, b) == IF TruthyNum(a) THEN a ELSE b

OrStr(a, b) == IF TruthyStr(a) THEN a ELSE b

\* String.prototype.toLowerCase, word by word
LowerWord(w) ==
    CASE w = "BLACK" -> "black"
      [] w = "BLUE" -> "blue"
      [] w = "NAVY" -> "navy"
      [] w = "Screen" -> "screen"
      [] w = "Print" -> "print"
      [] w = "Laser" -> "laser"
      [] w = "Engrave" -> "engrave"
      [] w = "FRONT" -> "front"
      [] w = "WRAP" -> "wrap"
      [] w = "BLK" -> "blk"
      [] w = "BLU" -> "blu"
      [] w = "NVY" -> "nvy"
      [] w = "STD" -> "std"
      [] w = "Setup" -> "setup"
      [] w = "Run" -> "run"
      [] w = "Imprint" -> "imprint"
      [] OTHER -> w

toLowerCase(s) == [i \in 1..Len(s) |-> LowerWord(s[i])]

\* String.prototype.includes
includes(hay, needle) ==
    \E i \in 0..(Len(hay) - Len(needle)) :
        SubSeq(hay, i + 1, i + Len(needle)) = needle

\* Array.prototype.find over the indices that satisfy the predicate: the first
\* such index, 0 when there is none
FirstIndex(indices) ==
    IF indices = {} THEN 0
    ELSE CHOOSE i \in indices : \A j \in indices : i <= j

---------------------------------------------------------------------------
(* Numerals and the regular expressions of the handlers, on words.         *)
(* A numeral is a word of decimal digits; the table gives its parseInt     *)
(* value and its number of digits.  The numerals of the model have no      *)
(* leading zero, so String(parseInt(w)) = w.                               *)

Numerals ==
    [w \in {"0", "1", "2", "3", "5790", "55900", "9999"} |->
        CASE w = "0" -> [value |-> 0, digits |-> 1]
          [] w = "1" -> [value |-> 1, digits |-> 1]
          [] w = "2" -> [value |-> 2, digits |-> 1]
          [] w = "3" -> [value |-> 3, digits |-> 1]
          [] w = "5790" -> [value |-> 5790, digits |-> 4]
          [] w = "55900" -> [value |-> 55900, digits |-> 5]
          [] w = "9999" -> [value |-> 9999, digits |-> 4]]

\* \d+ matches the word
IsNumeral(w) == w \in DOMAIN Numerals

\* \d{4,6} matches the word
IsProductNumber(w) ==
    IsNumeral(w) /\ Numerals[w].digits >= 4 /\ Numerals[w].digits <= 6

\* parseInt(w, 10)
parseInt(w) == Numerals[w].value

\* String(n) of a number n
NumberToString(n) == CHOOSE w \in DOMAIN Numerals : Numerals[w].value = n

\* the word at position i of the input in lower case, "" past the end
WordAt(input, i) == IF i >= 1 /\ i <= Len(input) THEN LowerWord(input[i]) ELSE ""

\* the input starts with the words (a pattern anchored with ^, flag i)
StartsWith(input, words) ==
    /\ Len(input) >= Len(words)
    /\ toLowerCase(SubSeq(input, 1, Len(words))) = words

\* route.ts lines 24-30: resetPatterns.some(p => p.test(userInput.trim()))
IsResetCommand(userInput) ==
    \/ \E s \in {<<>>, <<"start">>}, n \in {<<"new">>, <<"another">>} :
           StartsWith(userInput, s \o n \o <<"order">>)
    \/ StartsWith(userInput, <<"start", "over">>)
    \/ StartsWith(userInput, <<"reset">>)
    \/ StartsWith(userInput, <<"clear">>)

\* route.ts lines 41-43: the numeral captured by the first of the three quantity
\* patterns that matches, None when none matches
QuantityOnlyMatch(userInput) ==
    LET keyed == FirstIndex({ i \in 1..(Len(userInput) - 1) :
                     /\ WordAt(userInput, i) \in {"quantity", "qty"}
                     /\ IsNumeral(userInput[i + 1]) })
        counted == FirstIndex({ i \in 1..(Len(userInput) - 1) :
                     /\ IsNumeral(userInput[i])
                     /\ WordAt(userInput, i + 1) \in
                            {"unit", "units", "piece", "pieces", "item", "items"} })
    IN  IF Len(userInput) = 1 /\ IsNumeral(userInput[1]) THEN Some(userInput[1])
        ELSE IF keyed # 0 THEN Some(userInput[keyed + 1])
        ELSE IF counted # 0 THEN Some(userInput[counted])
        ELSE None

---------------------------------------------------------------------------
(* Catalog snapshots (PricingConfiguration). *)

PartPrice(minQuantity, price) == [minQuantity |-> minQuantity, price |-> price]

Part(partId, partDescription, priceBreaks) ==
    [partId |-> partId, partDescription |-> partDescription, priceBreaks |-> priceBreaks]

ChargePrice(xMinQty, yMinQty, yUom, price) ==
    [xMinQty |-> xMinQty, yMinQty |-> yMinQty, yUom |-> yUom, price |-> price]

Charge(chargeName, chargeType, priceArray) ==
    [chargeName |-> chargeName, chargeType |-> chargeType, priceArray |-> priceArray]

Decoration(decorationName, unitsIncluded, unitsMax, charges) ==
    [decorationName |-> decorationName,
     decorationUnitsIncluded |-> unitsIncluded,
     decorationUnitsMax |-> unitsMax,
     charges |-> charges]

Location(locationId, locationName, decorations) ==
    [locationId |-> locationId, locationName |-> locationName, decorations |-> decorations]

PricingConfiguration(productId, parts, locations) ==
    [productId |-> productId, parts |-> parts, locations |-> locations]

---------------------------------------------------------------------------
(* The language oracle (anthropic.messages.create + JSON.parse).           *)
(* A reply is the parsed JSON object, or a failure (the call or the parse  *)
(* throws).  Fields the reply leaves out or gives as null are None.        *)

EmptyFields ==
    [productId |-> None, quantity |-> None, color |-> None, partId |-> None,
     decorationMethod |-> None, decorationLocation |-> None, decorationColors |-> None]

OracleFailure == [ok |-> FALSE, fields |-> EmptyFields]

OracleReply(fields) == [ok |-> TRUE, fields |-> fields]

---------------------------------------------------------------------------
(* parseUserRequest, src/unnamed/part_001 lines 9-106. *)

\* lines 14-27: the quantity of the first qtyPattern that matches
RequestQuantity(userInput) ==
    LET n == Len(userInput)
        beforeOf == FirstIndex({ i \in 1..(n - 2) :
                        IsNumeral(userInput[i]) /\ WordAt(userInput, i + 1) = "of" })
        afterOrder == FirstIndex({ i \in 1..(n - 2) :
                        WordAt(userInput, i) = "order" /\ IsNumeral(userInput[i + 1]) })
        keyed == FirstIndex({ i \in 1..(n - 1) :
                        WordAt(userInput, i) = "quantity" /\ IsNumeral(userInput[i + 1]) })
    IN  IF beforeOf # 0 THEN Some(parseInt(userInput[beforeOf]))
        ELSE IF afterOrder # 0 THEN Some(parseInt(userInput[afterOrder + 1]))
        ELSE IF n >= 2 /\ IsNumeral(userInput[1]) THEN Some(parseInt(userInput[1]))
        ELSE IF keyed # 0 THEN Some(parseInt(userInput[keyed + 1]))
        ELSE None

\* the product number that follows the first of the key words, None when there is none
ProductNumberAfter(userInput, keys) ==
    LET i == FirstIndex({ j \in 1..(Len(userInput) - 1) :
                 WordAt(userInput, j) \in keys /\ IsProductNumber(userInput[j + 1]) })
    IN  IF i = 0 THEN None ELSE Some(userInput[i + 1])

\* the first product number of the input, None when there is none
FirstProductNumber(userInput) ==
    LET i == FirstIndex({ j \in 1..Len(userInput) : IsProductNumber(userInput[j]) })
    IN  IF i = 0 THEN None ELSE Some(userInput[i])

\* lines 30-36: the match of each productPattern, in order (the model has no '#')
ProductMatches(userInput) ==
    << ProductNumberAfter(userInput, {"product"}),
       ProductNumberAfter(userInput, {"of", "order"}),
       ProductNumberAfter(userInput, {"item"}),
       FirstProductNumber(userInput) >>

\* String(result.quantity)
QuantityString(quantity) ==
    IF quantity = None THEN "undefined" ELSE NumberToString(quantity[1])

\* line 55: remaining.replace(String(result.quantity), '')
RemoveFirst(userInput, word) ==
    LET i == FirstIndex({ j \in 1..Len(userInput) : userInput[j] = word })
    IN  IF i = 0 THEN userInput
        ELSE SubSeq(userInput, 1, i - 1) \o SubSeq(userInput, i + 1, Len(userInput))

\* lines 38-45: the index of the first match that is not the quantity (0: none)
FirstOtherThan(matches, quantityString) ==
    FirstIndex({ j \in 1..Len(matches) :
        matches[j] # None /\ matches[j][1] # quantityString })

\* lines 47-61: the match at index i, or the fallback search when i = 0
ProductIdAt(matches, i, userInput, quantity) ==
    IF i # 0 THEN matches[i]
    ELSE FirstProductNumber(IF TruthyNum(quantity)
                            THEN RemoveFirst(userInput, QuantityString(quantity))
                            ELSE userInput)

\* lines 38-61
RequestProductId(userInput, quantity) ==
    ProductIdAt(ProductMatches(userInput),
                FirstOtherThan(ProductMatches(userInput), QuantityString(quantity)),
                userInput, quantity)

\* lines 63-106: the oracle's reply merged into the regex results, which win
MergeRequestReply(quantity, productId, ai) ==
    LET regex == [EmptyFields EXCEPT !.quantity = quantity, !.productId = productId]
        a == ai.fields
    IN  IF ~ai.ok THEN regex
        ELSE [regex EXCEPT
                 !.color = IF TruthyStr(a.color) THEN a.color ELSE None,
                 !.decorationMethod =
                     IF TruthyStr(a.decorationMethod) THEN a.decorationMethod ELSE None,
                 !.decorationLocation =
                     IF TruthyStr(a.decorationLocation) THEN a.decorationLocation ELSE None,
                 !.decorationColors =
                     IF TruthyNum(a.decorationColors) THEN a.decorationColors ELSE None,
                 !.productId = IF productId = None /\ a.productId # None
                               THEN a.productId ELSE productId,
                 !.quantity = IF ~TruthyNum(quantity) /\ TruthyNum(a.quantity)
                              THEN a.quantity ELSE quantity]

\* lines 9-106.  ai: the oracle's reply to the extraction prompt.
parseUserRequest(userInput, ai) ==
    MergeRequestReply(RequestQuantity(userInput),
                      RequestProductId(userInput, RequestQuantity(userInput)), ai)

---------------------------------------------------------------------------
(* findSynonymMatch and synonyms, src/lib/examples.ts lines 137-173. *)

\* lines 137-147, in the order of the object's keys
synonyms ==
    << [canonical |-> <<"screen", "print">>,
        variations |-> {<<"silk", "screen">>, <<"silkscreen">>, <<"screen", "printing">>,
                        <<"screened">>}],
       [canonical |-> <<"laser", "engrave">>,
        variations |-> {<<"laser", "engraving">>, <<"lasered">>, <<"engraved">>,
                        <<"etched">>}],
       [canonical |-> <<"pad", "print">>,
        variations |-> {<<"pad", "printing">>, <<"pad", "printed">>, <<"tampo">>}],
       [canonical |-> <<"embroidery">>,
        variations |-> {<<"embroidered">>, <<"embroider">>}],
       [canonical |-> <<"front">>,
        variations |-> {<<"front", "side">>, <<"face">>, <<"main">>}],
       [canonical |-> <<"back">>,
        variations |-> {<<"back", "side">>, <<"rear">>, <<"reverse">>}],
       [canonical |-> <<"wrap">>,
        variations |-> {<<"wraparound">>, <<"wrap", "around">>, <<"full", "wrap">>,
                        <<"360">>}],
       [canonical |-> <<"full", "color">>,
        variations |-> {<<"4", "color">>, <<"four", "color">>, <<"cmyk">>, <<"process">>}],
       [canonical |-> <<"one", "color">>,
        variations |-> {<<"1", "color">>, <<"single", "color">>, <<"mono">>}] >>

\* lines 150-173: the matching option, None for null
findSynonymMatch(input, availableOptions) ==
    LET normalized == toLowerCase(input)
        direct == FirstIndex({ i \in 1..Len(availableOptions) :
                      \/ toLowerCase(availableOptions[i]) = normalized
                      \/ includes(toLowerCase(availableOptions[i]), normalized)
                      \/ includes(normalized, toLowerCase(availableOptions[i])) })
        OptionFor(canonical) ==
            FirstIndex({ i \in 1..Len(availableOptions) :
                includes(toLowerCase(availableOptions[i]), canonical) })
        hit == FirstIndex({ k \in 1..Len(synonyms) :
                   /\ \E v \in synonyms[k].variations : includes(normalized, v)
                   /\ OptionFor(synonyms[k].canonical) # 0 })
    IN  IF direct # 0 THEN Some(availableOptions[direct])
        ELSE IF hit # 0 THEN Some(availableOptions[OptionFor(synonyms[hit].canonical)])
        ELSE None

---------------------------------------------------------------------------
(* tryDirectMatch and parseUserResponse, src/unnamed/part_001 lines 156-348. *)

\* the names of a list of { partId | id, name } options
OptionNames(options) == [i \in 1..Len(options) |-> options[i].name]

\* colorOptions of line 167: the truthy names
TruthyNames(names) == SelectSeq(names, LAMBDA n : n # <<>>)

\* lines 325-345: the imprint-colour count of the first colorCountPattern that matches
DirectColorCount(input, maxDecorationColors) ==
    LET n == Len(input)
        counted == FirstIndex({ i \in 1..(n - 1) :
                       IsNumeral(input[i]) /\ WordAt(input, i + 1) = "color" })
        Phrase(word) == \E i \in 1..(n - 1) :
                            WordAt(input, i) = word /\ WordAt(input, i + 1) = "color"
    IN  IF counted # 0 THEN Some(parseInt(input[counted]))
        ELSE IF Phrase("full")
             THEN Some(IF maxDecorationColors # 0 THEN maxDecorationColors ELSE 4)
        ELSE IF Phrase("single") \/ Phrase("one") THEN Some(1)
        ELSE IF n = 1 /\ IsNumeral(input[1]) /\ Numerals[input[1]].digits = 1
             THEN Some(parseInt(input[1]))
        ELSE None

\* lines 275-348
tryDirectMatch(userInput, availableOptions) ==
    LET input == toLowerCase(userInput)
        colors == availableOptions.colors
        contained == FirstIndex({ i \in 1..Len(colors) :
                         /\ colors[i].name # <<>>
                         /\ includes(input, toLowerCase(colors[i].name)) })
        exact == FirstIndex({ i \in 1..Len(colors) :
                     colors[i].name # <<>> /\ toLowerCase(colors[i].name) = input })
        ci == IF contained # 0 THEN contained ELSE exact
    IN  [EmptyFields EXCEPT
            !.color = IF ci # 0 THEN Some(colors[ci].name) ELSE None,
            !.partId = IF ci # 0 THEN Some(colors[ci].partId) ELSE None,
            !.decorationMethod =
                findSynonymMatch(input, OptionNames(availableOptions.decorationMethods)),
            !.decorationLocation =
                findSynonymMatch(input, OptionNames(availableOptions.decorationLocations)),
            !.decorationColors =
                DirectColorCount(input, availableOptions.maxDecorationColors)]

\* lines 237-238: the option the oracle's colour matches, None when the reply has no
\* colour, the direct match has one, or no option matches
MatchedColor(directMatch, a, availableOptions) ==
    IF TruthyStr(a.color) /\ ~TruthyStr(directMatch.color)
    THEN findSynonymMatch(a.color[1], TruthyNames(OptionNames(availableOptions.colors)))
    ELSE None

\* lines 239-244: result.color and result.partId for the matched colour
MergeColor(directMatch, a, availableOptions, matchedColor) ==
    LET part == IF matchedColor = None THEN 0
                ELSE FirstIndex({ i \in 1..Len(availableOptions.colors) :
                         availableOptions.colors[i].name = matchedColor[1] })
    IN  [directMatch EXCEPT
            !.color = IF matchedColor # None THEN matchedColor ELSE @,
            !.partId = IF part # 0 THEN Some(availableOptions.colors[part].partId) ELSE @]

\* lines 247-263: the other fields of the oracle's reply, merged into the result
MergeOthers(result, a, availableOptions) ==
    [result EXCEPT
        !.partId = IF TruthyStr(a.partId) /\ ~TruthyStr(@) THEN a.partId ELSE @,
        !.decorationMethod =
            IF TruthyStr(a.decorationMethod) /\ ~TruthyStr(@)
            THEN OrStr(findSynonymMatch(a.decorationMethod[1],
                           OptionNames(availableOptions.decorationMethods)),
                       a.decorationMethod)
            ELSE @,
        !.decorationLocation =
            IF TruthyStr(a.decorationLocation) /\ ~TruthyStr(@)
            THEN OrStr(findSynonymMatch(a.decorationLocation[1],
                           OptionNames(availableOptions.decorationLocations)),
                       a.decorationLocation)
            ELSE @,
        !.decorationColors =
            IF TruthyNum(a.decorationColors) /\ ~TruthyNum(@)
            THEN a.decorationColors ELSE @]

\* lines 233-265: the merge of the oracle's reply into the direct match
MergeOracleReply(directMatch, a, availableOptions) ==
    MergeOthers(MergeColor(directMatch, a, availableOptions,
                           MatchedColor(directMatch, a, availableOptions)),
                a, availableOptions)

\* a parser that gives up the direct match when the oracle fails
DropDirectMatchOnFailure(userInput, availableOptions, ai) ==
    IF ai.ok
    THEN MergeOracleReply(tryDirectMatch(userInput, availableOptions), ai.fields,
                          availableOptions)
    ELSE EmptyFields

\* lines 156-272.  ai: the oracle's reply to the extraction prompt.
parseUserResponse(userInput, availableOptions, ai) ==
    IF ai.ok
    THEN MergeOracleReply(tryDirectMatch(userInput, availableOptions), ai.fields,
                          availableOptions)
    ELSE tryDirectMatch(userInput, availableOptions)

---------------------------------------------------------------------------
(* buildLineItem, src/unnamed/part_001 lines 350-462. *)

\* lines 370-376: the price of the last break, in array order, that quantity reaches
RECURSIVE UnitPriceFrom(_, _, _)
UnitPriceFrom(priceBreaks, quantity, unitPrice) ==
    IF priceBreaks = <<>> THEN unitPrice
    ELSE UnitPriceFrom(Tail(priceBreaks), quantity,
                       IF quantity >= Head(priceBreaks).minQuantity
                       THEN Head(priceBreaks).price
                       ELSE unitPrice)

\* a unit price that stops at the first break the quantity reaches
FirstReachedBreakPrice(part, quantity) ==
    LET reached == { i \in 1..Len(part.priceBreaks) :
                       quantity >= part.priceBreaks[i].minQuantity }
    IN  IF reached = {} THEN 0
        ELSE part.priceBreaks[CHOOSE i \in reached : \A j \in reached : i <= j].price

UnitPrice(part, quantity) == UnitPriceFrom(part.priceBreaks, quantity, 0)

LineItemCharge(name, quantity, unitPrice, extendedPrice) ==
    [name |-> name, quantity |-> quantity, unitPrice |-> unitPrice,
     extendedPrice |-> extendedPrice]

\* lines 394-409: one line per Setup charge that has a price matrix
RECURSIVE SetupLines(_)
SetupLines(charges) ==
    IF charges = <<>> THEN <<>>
    ELSE LET charge == Head(charges)
         IN  (IF charge.chargeType = "Setup" /\ Len(charge.priceArray) > 0
              THEN <<LineItemCharge(charge.chargeName, 1,
                                    charge.priceArray[1].price,
                                    charge.priceArray[1].price)>>
              ELSE <<>>)
             \o SetupLines(Tail(charges))

\* lines 426-428: the charge line of an extra-colour run charge
ExtraColorLine(charge, quantity, extraColors) ==
    LineItemCharge(charge.chargeName, quantity, charge.priceArray[1].price,
                   charge.priceArray[1].price * quantity * extraColors)

\* lines 417-439: the lines of one Run charge
RunLine(charge, decoration, quantity, decorationColors) ==
    LET chargePrice == charge.priceArray[1]
        extraColors == decorationColors - decoration.decorationUnitsIncluded
    IN  IF chargePrice.yUom = "Colors" /\ decorationColors > chargePrice.yMinQty
        THEN IF extraColors > 0
             THEN <<ExtraColorLine(charge, quantity, extraColors)>>
             ELSE <<>>
        ELSE IF chargePrice.yUom # "Colors"
             THEN <<LineItemCharge(charge.chargeName, quantity, chargePrice.price,
                                   chargePrice.price * quantity)>>
             ELSE <<>>

\* lines 411-441
RECURSIVE RunLines(_, _, _, _)
RunLines(charges, decoration, quantity, decorationColors) ==
    IF charges = <<>> THEN <<>>
    ELSE LET charge == Head(charges)
         IN  (IF charge.chargeType = "Run" /\ Len(charge.priceArray) > 0
              THEN RunLine(charge, decoration, quantity, decorationColors)
              ELSE <<>>)
             \o RunLines(Tail(charges), decoration, quantity, decorationColors)

\* lines 383-386
FindLocation(pricingData, decorationLocation) ==
    FirstIndex({ i \in 1..Len(pricingData.locations) :
                   \/ toLowerCase(pricingData.locations[i].locationName) =
                          toLowerCase(decorationLocation)
                   \/ pricingData.locations[i].locationId = decorationLocation })

\* lines 389-391
FindDecoration(location, decorationMethod) ==
    FirstIndex({ i \in 1..Len(location.decorations) :
                   includes(toLowerCase(location.decorations[i].decorationName),
                            toLowerCase(decorationMethod)) })

\* lines 381-444
DecorationCharges(pricingData, decorationMethod, decorationLocation, quantity, decorationColors) ==
    IF ~(TruthyStr(decorationMethod) /\ TruthyStr(decorationLocation)) THEN <<>>
    ELSE LET li == FindLocation(pricingData, decorationLocation[1])
         IN  IF li = 0 THEN <<>>
             ELSE LET location == pricingData.locations[li]
                      di == FindDecoration(location, decorationMethod[1])
                  IN  IF di = 0 THEN <<>>
                      ELSE LET decoration == location.decorations[di]
                           IN  SetupLines(decoration.charges)
                               \o RunLines(decoration.charges, decoration, quantity,
                                           decorationColors)

\* line 446
RECURSIVE SumExtended(_)
SumExtended(charges) ==
    IF charges = <<>> THEN 0
    ELSE Head(charges).extendedPrice + SumExtended(Tail(charges))

\* a total that leaves the charges out
TotalWithoutCharges(extendedPrice, charges) == extendedPrice

\* line 460
TotalWithCharges(extendedPrice, charges) == extendedPrice + SumExtended(charges)

\* line 362: selectedOptions.decorationColors || parsedRequest.decorationColors || 1
EffectiveDecorationColors(selectedOptions, parsedRequest) ==
    LET c == OrNum(selectedOptions.decorationColors, parsedRequest.decorationColors)
    IN  IF TruthyNum(c) THEN c[1] ELSE 1

\* lines 350-462.  pricingData is the snapshot state.pricingData (None: undefined).
\* The result is None for null and Some(line item) otherwise.
buildLineItem(parsedRequest, selectedOptions, pricingData) ==
    IF pricingData = None THEN None
    ELSE
    LET pd == pricingData[1]
        quantity == OrNum(selectedOptions.quantity, parsedRequest.quantity)
        partId == OrStr(selectedOptions.partId, parsedRequest.partId)
        decorationMethod ==
            OrStr(selectedOptions.decorationMethod, parsedRequest.decorationMethod)
        decorationLocation ==
            OrStr(selectedOptions.decorationLocation, parsedRequest.decorationLocation)
        decorationColors == EffectiveDecorationColors(selectedOptions, parsedRequest)
    IN  IF ~TruthyNum(quantity) \/ ~TruthyStr(partId) THEN None
        ELSE LET pi == FirstIndex({ i \in 1..Len(pd.parts) : pd.parts[i].partId = partId[1] })
             IN  IF pi = 0 THEN None
                 ELSE LET part == pd.parts[pi]
                          unitPrice == UnitPrice(part, quantity[1])
                          extendedPrice == unitPrice * quantity[1]
                          charges == DecorationCharges(pd, decorationMethod,
                                                       decorationLocation, quantity[1],
                                                       decorationColors)
                      IN  Some([productId |-> pd.productId,
                                partId |-> partId[1],
                                description |-> part.partDescription,
                                quantity |-> quantity[1],
                                unitPrice |-> unitPrice,
                                extendedPrice |-> extendedPrice,
                                decorationMethod |-> decorationMethod,
                                decorationLocation |-> decorationLocation,
                                decorationColors |-> decorationColors,
                                charges |-> charges,
                                totalWithCharges |->
                                    TotalWithCharges(extendedPrice, charges)])

---------------------------------------------------------------------------
(* Helpers of the option-selection handler, route.ts lines 363-520. *)

\* the decorations of all locations, in catalog order
RECURSIVE AllDecorations(_)
AllDecorations(locations) ==
    IF locations = <<>> THEN <<>>
    ELSE Head(locations).decorations \o AllDecorations(Tail(locations))

\* the names of a list of decorations without repetition, in order of first occurrence
RECURSIVE UniqueNames(_, _)
UniqueNames(decorations, seen) ==
    IF decorations = <<>> THEN seen
    ELSE UniqueNames(Tail(decorations),
                     IF \E i \in 1..Len(seen) : seen[i] = Head(decorations).decorationName
                     THEN seen
                     ELSE Append(seen, Head(decorations).decorationName))

\* lines 498-507
getUniqueDecorationMethods(pricingData) ==
    LET names == UniqueNames(AllDecorations(pricingData.locations), <<>>)
    IN  [i \in 1..Len(names) |-> [name |-> names[i]]]

\* lines 509-520
getMaxDecorationColors(pricingData) ==
    LET decorations == AllDecorations(pricingData.locations)
        units == {1} \cup { decorations[i].decorationUnitsMax : i \in 1..Len(decorations) }
    IN  CHOOSE m \in units : \A u \in units : u <= m

\* lines 375-379: a decoration name that looks like a charge name
IsChargeName(name) ==
    \/ Len(name) > 0 /\ LowerWord(name[Len(name)]) \in
                            {"small", "large", "medium", "xl", "xxl"}
    \/ Len(name) > 1 /\ LowerWord(name[1]) = "cb"
    \/ \E i \in 1..Len(name) : LowerWord(name[i]) = "drinkware"

\* lines 363-433
buildAvailableOptions(pricingData, selectedOptions) ==
    LET methods == SelectSeq(getUniqueDecorationMethods(pricingData),
                             LAMBDA m : ~IsChargeName(m.name))
        decorations == SelectSeq(AllDecorations(pricingData.locations),
                                 LAMBDA d : ~IsChargeName(d.decorationName))
        units == {1} \cup { decorations[i].decorationUnitsMax : i \in 1..Len(decorations) }
    IN  [colors |-> [i \in 1..Len(pricingData.parts) |->
                        [partId |-> pricingData.parts[i].partId,
                         name |-> pricingData.parts[i].partDescription,
                         selected |-> selectedOptions.partId =
                                          Some(pricingData.parts[i].partId)]],
         decorationMethods |-> [i \in 1..Len(methods) |->
                        [name |-> methods[i].name,
                         selected |-> selectedOptions.decorationMethod =
                                          Some(methods[i].name)]],
         decorationLocations |-> [i \in 1..Len(pricingData.locations) |->
                        [name |-> pricingData.locations[i].locationName,
                         selected |-> selectedOptions.decorationLocation =
                                          Some(pricingData.locations[i].locationName)]],
         decorationColors |-> [min |-> 0,
                               max |-> CHOOSE m \in units : \A u \in units : u <= m,
                               selected |-> selectedOptions.decorationColors]]

\* lines 435-444: TRUE marks a field that is still required
getRequiredFields(selectedOptions) ==
    [quantity |-> ~TruthyNum(selectedOptions.quantity),
     color |-> ~TruthyStr(selectedOptions.partId),
     decorationMethod |-> ~TruthyStr(selectedOptions.decorationMethod),
     decorationLocation |-> ~TruthyStr(selectedOptions.decorationLocation),
     decorationColors |-> selectedOptions.decorationColors = None]

\* a list that names the imprint colours first
ImprintColorsFirst(requiredFields) ==
    (IF requiredFields.decorationColors THEN <<"imprint colors">> ELSE <<>>)
    \o (IF requiredFields.quantity THEN <<"quantity">> ELSE <<>>)
    \o (IF requiredFields.color THEN <<"color">> ELSE <<>>)
    \o (IF requiredFields.decorationMethod THEN <<"decoration method">> ELSE <<>>)
    \o (IF requiredFields.decorationLocation THEN <<"decoration location">> ELSE <<>>)

\* lines 446-454
getMissingFieldsList(requiredFields) ==
    (IF requiredFields.quantity THEN <<"quantity">> ELSE <<>>)
    \o (IF requiredFields.color THEN <<"color">> ELSE <<>>)
    \o (IF requiredFields.decorationMethod THEN <<"decoration method">> ELSE <<>>)
    \o (IF requiredFields.decorationLocation THEN <<"decoration location">> ELSE <<>>)
    \o (IF requiredFields.decorationColors THEN <<"imprint colors">> ELSE <<>>)

\* lines 456-462
allRequiredFieldsFilled(requiredFields) ==
    /\ ~requiredFields.quantity
    /\ ~requiredFields.color
    /\ ~requiredFields.decorationMethod
    /\ ~requiredFields.decorationLocation
    /\ ~requiredFields.decorationColors

\* lines 464-496: the selected options after the automatic selections
autoSelectSingleOptions(selectedOptions, pricingData) ==
    LET mainParts == SelectSeq(pricingData.parts, LAMBDA p : p.partDescription # <<>>)
        methods == getUniqueDecorationMethods(pricingData)
        maxColors == getMaxDecorationColors(pricingData)
    IN  [selectedOptions EXCEPT
            !.partId = IF ~TruthyStr(@) /\ Len(mainParts) = 1
                       THEN Some(mainParts[1].partId) ELSE @,
            !.decorationMethod = IF ~TruthyStr(@) /\ Len(methods) = 1
                                 THEN Some(methods[1].name) ELSE @,
            !.decorationLocation = IF ~TruthyStr(@) /\ Len(pricingData.locations) = 1
                                   THEN Some(pricingData.locations[1].locationName)
                                   ELSE @,
            !.decorationColors = IF ~TruthyNum(@) /\ maxColors = 1 THEN Some(1) ELSE @]

---------------------------------------------------------------------------
(* The catalog collaborator as the option-selection handler sees it,       *)
(* src/unnamed/part_002.                                                   *)

\* lines 148-157 and 200-207: the configuration returned when no FOB point is found
\* or the request fails
EmptyConfiguration(productId) == PricingConfiguration(productId, <<>>, <<>>)

ScreenPrint ==
    Decoration(<<"Screen", "Print">>, 1, 3,
               <<Charge(<<"Screen", "Setup">>, "Setup", <<ChargePrice(1, 1, "Colors", 50)>>),
                 Charge(<<"Extra", "Color">>, "Run", <<ChargePrice(1, 1, "Colors", 2)>>)>>)

LaserEngrave == Decoration(<<"Laser", "Engrave">>, 0, 1, <<>>)

\* the products the supplier knows, as parseConfigurationResponse returns them
\* (price breaks ascending, line 246)
Catalog ==
    [id \in {"55900", "5790"} |->
        IF id = "55900"
        THEN PricingConfiguration("55900",
                 <<Part(<<"BLK">>, <<"BLACK">>, <<PartPrice(1, 6), PartPrice(3, 4)>>),
                   Part(<<"NVY">>, <<"NAVY", "BLUE">>, <<PartPrice(1, 6), PartPrice(3, 4)>>),
                   Part(<<"BLU">>, <<"BLUE">>, <<PartPrice(1, 6), PartPrice(3, 4)>>)>>,
                 <<Location(<<"1">>, <<"FRONT">>, <<ScreenPrint, LaserEngrave>>),
                   Location(<<"2">>, <<"WRAP">>, <<ScreenPrint>>)>>)
        ELSE PricingConfiguration("5790",
                 <<Part(<<"STD">>, <<"BLACK">>, <<PartPrice(1, 9)>>)>>,
                 <<Location(<<"1">>, <<"FRONT">>, <<LaserEngrave>>)>>)]

\* lines 141-209.  found: getFobPoints returned a FOB point and the request succeeded.
getConfigurationAndPricing(productId, found) ==
    IF found /\ productId \in DOMAIN Catalog THEN Catalog[productId]
    ELSE EmptyConfiguration(productId)

\* the outcomes of the lookup of a product id
LookupOutcomes(productId) ==
    { getConfigurationAndPricing(productId, found) : found \in BOOLEAN }

---------------------------------------------------------------------------
(* The option-selection handler, route.ts lines 6-361. *)

ConversationState(parsedRequest, selectedOptions, pricingData, lineItem) ==
    [parsedRequest |-> parsedRequest, selectedOptions |-> selectedOptions,
     pricingData |-> pricingData, lineItem |-> lineItem]

\* the JSON body of a response; kind names the return statement that produced it
Response(kind, success, state, availableOptions, requiredFields) ==
    [kind |-> kind, success |-> success, state |-> state,
     availableOptions |-> availableOptions, requiredFields |-> requiredFields]

NoResponse == Response("none", FALSE, None, None, None)

\* lines 31-36
ResetResponse == Response("reset", TRUE, None, None, None)

\* lines 58-62
NeedProductResponse == Response("needProduct", FALSE, None, None, None)

\* lines 280-287: the catch block of POST
ErrorResponse == Response("error", FALSE, None, None, None)

\* lines 20 and 46: the promise of handleSelectionUpdate is returned without await,
\* so its rejection passes the catch block and the request ends without a JSON body;
\* the client's response.json() throws (page.tsx lines 47 and 68-75)
RejectedResponse == Response("rejected", FALSE, None, None, None)

\* lines 133-165, 240-278 and 324-360: the response with the line item when one was
\* built, with the state as it is otherwise
SelectionResponseWith(state, availableOptions, requiredFields, lineItem) ==
    IF lineItem # None
    THEN Response("summary", TRUE, Some([state EXCEPT !.lineItem = lineItem]),
                  Some(availableOptions), Some(requiredFields))
    ELSE Response("options", TRUE, Some(state),
                  Some(availableOptions), Some(requiredFields))

\* a handler that prices the state whatever is missing
PricedWhateverIsMissing(state) ==
    buildLineItem(state.parsedRequest, state.selectedOptions, state.pricingData)

\* lines 229-237 and 313-321: the line item built when every required field is filled
LineItemFor(state) ==
    IF allRequiredFieldsFilled(getRequiredFields(state.selectedOptions))
    THEN buildLineItem(state.parsedRequest, state.selectedOptions, state.pricingData)
    ELSE None

\* lines 122-165, 229-278 and 313-360: the response for a state whose selections were
\* just updated (getProductData answers)
SelectionResponse(state) ==
    SelectionResponseWith(state,
        buildAvailableOptions(state.pricingData[1], state.selectedOptions),
        getRequiredFields(state.selectedOptions),
        LineItemFor(state))

\* lines 69-77: the part whose description contains the requested colour
MatchColor(parsedRequest, pricingData) ==
    LET i == FirstIndex({ j \in 1..Len(pricingData.parts) :
                 includes(toLowerCase(pricingData.parts[j].partDescription),
                          toLowerCase(parsedRequest.color[1])) })
    IN  IF TruthyStr(parsedRequest.color) /\ ~TruthyStr(parsedRequest.partId) /\ i # 0
        THEN [parsedRequest EXCEPT !.partId = Some(pricingData.parts[i].partId)]
        ELSE parsedRequest

\* the index of the first decoration of the location whose name contains the method
DecorationNamed(location, method) ==
    FirstIndex({ j \in 1..Len(location.decorations) :
        includes(toLowerCase(location.decorations[j].decorationName),
                 toLowerCase(method)) })

\* the index of the first location that offers a decoration containing the method
LocationOffering(pricingData, method) ==
    FirstIndex({ i \in 1..Len(pricingData.locations) :
        DecorationNamed(pricingData.locations[i], method) # 0 })

\* the index of the first location whose name contains the given name
LocationNamed(pricingData, name) ==
    FirstIndex({ i \in 1..Len(pricingData.locations) :
        includes(toLowerCase(pricingData.locations[i].locationName), toLowerCase(name)) })

\* lines 79-113: the selected options of the new state
InitialSelection(parsedRequest, pricingData) ==
    LET method == parsedRequest.decorationMethod
        li == IF TruthyStr(method) THEN LocationOffering(pricingData, method[1]) ELSE 0
        location == pricingData.locations[li]
        matchedDecorationMethod ==
            IF li # 0
            THEN Some(location.decorations[DecorationNamed(location, method[1])].decorationName)
            ELSE None
        fromMethod == IF li # 0 /\ ~TruthyStr(parsedRequest.decorationLocation)
                      THEN Some(location.locationName) ELSE None
        ni == IF TruthyStr(parsedRequest.decorationLocation)
              THEN LocationNamed(pricingData, parsedRequest.decorationLocation[1]) ELSE 0
        matchedDecorationLocation ==
            IF ni # 0 THEN Some(pricingData.locations[ni].locationName) ELSE fromMethod
    IN  [parsedRequest EXCEPT
            !.decorationMethod = OrStr(matchedDecorationMethod, @),
            !.decorationLocation = OrStr(matchedDecorationLocation, @)]

\* lines 69-128: the state of the new conversation
StateWith(parsedRequest, pricingData) ==
    ConversationState(parsedRequest,
        autoSelectSingleOptions(InitialSelection(parsedRequest, pricingData), pricingData),
        Some(pricingData), None)

NewState(parsed, pricingData) == StateWith(MatchColor(parsed, pricingData), pricingData)

\* lines 52-166: the first turn.  parsed: the value parseUserRequest returned at line 54;
\* found: the outcome of the catalog lookup; productDataOk: getProductData (line 67)
\* returns.
FirstTurnResponse(parsed, found, productDataOk) ==
    IF parsed.productId = None THEN NeedProductResponse
    ELSE IF ~productDataOk THEN ErrorResponse
    ELSE SelectionResponse(
             NewState(parsed, getConfigurationAndPricing(parsed.productId[1], found)))

\* lines 170-175
OptionsContext(pricingData) ==
    [colors |-> [i \in 1..Len(pricingData.parts) |->
                    [partId |-> pricingData.parts[i].partId,
                     name |-> pricingData.parts[i].partDescription]],
     decorationMethods |-> getUniqueDecorationMethods(pricingData),
     decorationLocations |-> [i \in 1..Len(pricingData.locations) |->
                                 [name |-> pricingData.locations[i].locationName]],
     maxDecorationColors |-> getMaxDecorationColors(pricingData)]

\* lines 183-192: extracted.partId after the colour/part match
MatchExtractedPart(extracted, pricingData) ==
    LET colorValue == OrStr(extracted.color, extracted.partId)
        i == FirstIndex({ j \in 1..Len(pricingData.parts) :
                 \/ toLowerCase(pricingData.parts[j].partId) = toLowerCase(colorValue[1])
                 \/ includes(toLowerCase(pricingData.parts[j].partDescription),
                             toLowerCase(colorValue[1])) })
    IN  IF TruthyStr(colorValue) /\ i # 0
        THEN [extracted EXCEPT !.partId = Some(pricingData.parts[i].partId)]
        ELSE extracted

\* lines 195-209: extracted.decorationMethod and .decorationLocation after the method match
MatchExtractedMethod(extracted, selectedOptions, pricingData) ==
    LET method == extracted.decorationMethod
        li == IF TruthyStr(method) THEN LocationOffering(pricingData, method[1]) ELSE 0
        location == pricingData.locations[li]
    IN  IF li = 0 THEN extracted
        ELSE [extracted EXCEPT
                 !.decorationMethod =
                     Some(location.decorations[DecorationNamed(location, method[1])]
                              .decorationName),
                 !.decorationLocation =
                     IF ~TruthyStr(selectedOptions.decorationLocation) /\ ~TruthyStr(@)
                     THEN Some(location.locationName) ELSE @]

\* lines 212-219: extracted.decorationLocation after the location match
MatchExtractedLocation(extracted, pricingData) ==
    LET ni == IF TruthyStr(extracted.decorationLocation)
              THEN LocationNamed(pricingData, extracted.decorationLocation[1]) ELSE 0
    IN  IF ni = 0 THEN extracted
        ELSE [extracted EXCEPT
                 !.decorationLocation = Some(pricingData.locations[ni].locationName)]

\* lines 181-220: what the follow-up turn extracts, matched to the catalog.
\* extracted: the value parseUserResponse returned at line 177.
FollowUpExtraction(extracted, currentState) ==
    LET pricingData == currentState.pricingData[1]
        withPart == MatchExtractedPart(extracted, pricingData)
        withMethod == MatchExtractedMethod(withPart, currentState.selectedOptions,
                                           pricingData)
    IN  MatchExtractedLocation(withMethod, pricingData)

\* a merge that writes every extracted key, the unset ones too
OverwriteExtracted(selectedOptions, extracted) == extracted

\* lines 222-227: only the values that are neither null nor undefined are written
MergeExtracted(selectedOptions, extracted) ==
    [f \in DOMAIN selectedOptions |->
        IF extracted[f] # None THEN extracted[f] ELSE selectedOptions[f]]

\* lines 222-278: the follow-up turn after the extraction.  productDataOk:
\* getProductData (lines 237 and 261) returns.
FollowUpResponse(currentState, extracted, productDataOk) ==
    IF ~productDataOk THEN ErrorResponse
    ELSE SelectionResponse([currentState EXCEPT
                               !.selectedOptions = MergeExtracted(@, extracted)])

\* lines 303-311: the location selected together with a decoration method
AutoSelectLocation(selectedOptions, pricingData, field, value) ==
    LET locationsWithMethod ==
            SelectSeq(pricingData.locations,
                      LAMBDA l : \E i \in 1..Len(l.decorations) :
                                     l.decorations[i].decorationName = value[1])
    IN  IF /\ field = "decorationMethod"
           /\ TruthyStr(value)
           /\ Len(locationsWithMethod) = 1
           /\ ~TruthyStr(selectedOptions.decorationLocation)
        THEN [selectedOptions EXCEPT
                 !.decorationLocation = Some(locationsWithMethod[1].locationName)]
        ELSE selectedOptions

\* lines 290-361.  value: None for null (the field is deleted); productDataOk:
\* getProductData (lines 321 and 344) returns.
handleSelectionUpdate(currentState, field, value, productDataOk) ==
    LET updated == [currentState.selectedOptions EXCEPT ![field] = value]
        selectedOptions == AutoSelectLocation(updated, currentState.pricingData[1],
                                              field, value)
    IN  IF ~productDataOk THEN RejectedResponse
        ELSE SelectionResponse([currentState EXCEPT !.selectedOptions = selectedOptions])

---------------------------------------------------------------------------
(* The client, src/app/page.tsx lines 28-89. *)

\* a client that keeps its state when a response carries none
KeepStateOnReset(held, data) ==
    IF data.success /\ data.state # None THEN data.state ELSE held

\* lines 49-50: if (data.success) setConversationState(data.state)
ClientAdopt(held, data) == IF data.success THEN data.state ELSE held

---------------------------------------------------------------------------
(* The question-driven handler: src/unnamed/part_004 with                  *)
(* src/lib/ai-assistant.ts lines 293-760.                                  *)

\* the shape of Product that ai-assistant.ts reads (lines 576, 639-642)
Product(productId, parts) == [productId |-> productId, parts |-> parts]

\* the shape of ProductPricing that ai-assistant.ts reads (lines 577-578, 646-650, 662-687)
ProductPricing(priceBreaks, decorationLocations, charges) ==
    [priceBreaks |-> priceBreaks, decorationLocations |-> decorationLocations,
     charges |-> charges]

\* the products the supplier knows: one with two colours and a decoration method, one
\* with a single colour and no decoration at all
LegacyCatalog ==
    [id \in {"55900", "5790"} |->
        IF id = "55900"
        THEN [product |-> Product("55900",
                  <<[partId |-> <<"BLK">>, colors |-> << <<"BLACK">> >>],
                    [partId |-> <<"BLU">>, colors |-> << <<"BLUE">> >>]>>),
              pricing |-> ProductPricing(
                  <<[quantity |-> 1, price |-> 6], [quantity |-> 3, price |-> 4]>>,
                  <<[locationName |-> <<"FRONT">>,
                     decorationMethods |-> <<[decorationName |-> <<"Screen", "Print">>]>>]>>,
                  <<[chargeName |-> <<"Screen", "Setup">>, chargeType |-> "Setup",
                     priceBreaks |-> <<[quantity |-> 1, price |-> 50]>>],
                    [chargeName |-> <<"Imprint">>, chargeType |-> "Run",
                     priceBreaks |-> <<[quantity |-> 1, price |-> 2]>>]>>)]
        ELSE [product |-> Product("5790",
                  <<[partId |-> <<"STD">>, colors |-> << <<"BLACK">> >>]>>),
              pricing |-> ProductPricing(<<[quantity |-> 1, price |-> 9]>>, <<>>, <<>>)]]

\* getProduct of '@/lib/promostandards': the product, None for null
getProduct(productId) ==
    IF productId \in DOMAIN LegacyCatalog THEN Some(LegacyCatalog[productId].product)
    ELSE None

\* getConfigurationAndPricing and getAvailableCharges of '@/lib/promostandards', as
\* part_004 lines 67-72 use them: the pricing with its charges, None for null
getPricing(productId, found) ==
    IF found /\ productId \in DOMAIN LegacyCatalog
    THEN Some(LegacyCatalog[productId].pricing)
    ELSE None

LegacyState(step, parsedRequest, selectedOptions, product, pricing, questions, lineItem) ==
    [step |-> step, parsedRequest |-> parsedRequest, selectedOptions |-> selectedOptions,
     product |-> product, pricing |-> pricing, questions |-> questions,
     lineItem |-> lineItem]

\* part_004 lines 24-29 and 164-169
InitialState == LegacyState("initial", EmptyFields, EmptyFields, None, None, <<>>, None)

LegacyResponse(kind, success, state) == [kind |-> kind, success |-> success, state |-> state]

NoLegacyResponse == LegacyResponse("none", FALSE, None)

\* ai-assistant.ts lines 315-332: a questionPattern matches the input
IsQuestion(userInput) ==
    \E phrase \in { <<"what", "methods">>, <<"what", "decoration", "methods">>,
                    <<"what", "options">>, <<"what", "are", "options">>,
                    <<"what", "the", "options">>, <<"what", "are", "the", "options">>,
                    <<"what", "colors">>, <<"what", "sizes">>, <<"how", "much">>,
                    <<"how", "many">>, <<"can", "you">>, <<"can", "i">>,
                    <<"is", "there">>, <<"do", "you", "have">>,
                    <<"tell", "me", "about">>, <<"list", "the">>, <<"list", "all">> } :
        includes(toLowerCase(userInput), phrase)

\* ai-assistant.ts lines 310-343
detectUserIntent(userInput, state) ==
    IF IsQuestion(userInput) THEN "question"
    ELSE IF Len(state.questions) > 0 /\ Len(userInput) <= 10 THEN "answer"
    ELSE "order"

\* ai-assistant.ts lines 453-486: the truthy values of the oracle's reply; an
\* unparsable reply gives {}
extractInfoFromResponse(ai) ==
    LET a == ai.fields
    IN  IF ~ai.ok THEN EmptyFields
        ELSE [EmptyFields EXCEPT
                 !.productId = a.productId,
                 !.quantity = IF TruthyNum(a.quantity) THEN a.quantity ELSE None,
                 !.color = IF TruthyStr(a.color) THEN a.color ELSE None,
                 !.decorationMethod =
                     IF TruthyStr(a.decorationMethod) THEN a.decorationMethod ELSE None,
                 !.decorationColors =
                     IF TruthyNum(a.decorationColors) THEN a.decorationColors ELSE None,
                 !.decorationLocation =
                     IF TruthyStr(a.decorationLocation) THEN a.decorationLocation
                     ELSE None]

\* value === '' for the value of field f
IsEmptyText(f, value) ==
    \/ f = "productId" /\ value = Some("")
    \/ f \in {"color", "partId", "decorationMethod", "decorationLocation"}
          /\ value = Some(<<>>)

\* part_004 lines 176-187 (and lines 51-57, which differ only on ''): newInfo's
\* values that are neither null nor undefined nor '' are written over existing
mergeInfo(existing, newInfo) ==
    [f \in DOMAIN existing |->
        IF newInfo[f] # None /\ ~IsEmptyText(f, newInfo[f]) THEN newInfo[f]
        ELSE existing[f]]

\* the elements of a sequence of sequences, concatenated (Array.prototype.flatMap)
RECURSIVE Flatten(_)
Flatten(seqs) == IF seqs = <<>> THEN <<>> ELSE Head(seqs) \o Flatten(Tail(seqs))

\* ai-assistant.ts lines 559-624: the field of the question returned, <<>> when there
\* is nothing to ask
generateClarifyingQuestions(parsedRequest, product, pricing, selectedOptions) ==
    LET quantity == OrNum(parsedRequest.quantity, selectedOptions.quantity)
        color == OrStr(parsedRequest.color, selectedOptions.color)
        decorationMethod ==
            OrStr(parsedRequest.decorationMethod, selectedOptions.decorationMethod)
        decorationColors ==
            OrNum(parsedRequest.decorationColors, selectedOptions.decorationColors)
        colors == Flatten([i \in 1..Len(product.parts) |-> product.parts[i].colors])
        availableColors == { colors[i] : i \in 1..Len(colors) }
        methods == Flatten([i \in 1..Len(pricing.decorationLocations) |->
                               pricing.decorationLocations[i].decorationMethods])
        questions ==
            (IF ~TruthyNum(quantity) THEN <<"quantity">> ELSE <<>>)
            \o (IF ~TruthyStr(color) /\ Cardinality(availableColors) > 1
                THEN <<"color">> ELSE <<>>)
            \o (IF ~TruthyStr(decorationMethod) /\ Len(methods) > 0
                THEN <<"decorationMethod">> ELSE <<>>)
            \o (IF TruthyStr(decorationMethod) /\ ~TruthyNum(decorationColors)
                THEN <<"decorationColors">> ELSE <<>>)
    IN  SubSeq(questions, 1, IF Len(questions) > 0 THEN 1 ELSE 0)

\* part_000 lines 95-101: the fields that are still missing
MissingFields(parsedRequest, product, pricing) ==
    LET methods == Flatten([i \in 1..Len(pricing.decorationLocations) |->
                               pricing.decorationLocations[i].decorationMethods])
    IN  (IF ~TruthyNum(parsedRequest.quantity) THEN <<"quantity">> ELSE <<>>)
        \o (IF ~TruthyStr(parsedRequest.color) THEN <<"color">> ELSE <<>>)
        \o (IF ~TruthyStr(parsedRequest.decorationMethod) /\ Len(methods) > 0
            THEN <<"decorationMethod">> ELSE <<>>)
        \o (IF ~TruthyStr(parsedRequest.decorationLocation)
               /\ Len(pricing.decorationLocations) > 0
            THEN <<"decorationLocation">> ELSE <<>>)
        \o (IF ~TruthyNum(parsedRequest.decorationColors)
            THEN <<"decorationColors">> ELSE <<>>)

\* part_000 lines 165-189: the questions asked when the oracle's reply is not parsed
FallbackQuestions(parsedRequest, product, pricing) ==
    LET colors == Flatten([i \in 1..Len(product.parts) |-> product.parts[i].colors])
        methods == Flatten([i \in 1..Len(pricing.decorationLocations) |->
                               pricing.decorationLocations[i].decorationMethods])
    IN  (IF ~TruthyNum(parsedRequest.quantity) THEN <<"quantity">> ELSE <<>>)
        \o (IF ~TruthyStr(parsedRequest.color) /\ Len(colors) > 0
            THEN <<"color">> ELSE <<>>)
        \o (IF ~TruthyStr(parsedRequest.decorationMethod) /\ Len(methods) > 0
            THEN <<"decorationMethod">> ELSE <<>>)

\* part_000 lines 84-192, the generation of generateClarifyingQuestions that asks
\* the oracle: the fields of the questions returned.  ai: the oracle's reply to the
\* prompt of lines 107-152, [ok |-> TRUE, questions |-> the fields of the questions
\* it lists] when line 157 parses it and ok = FALSE when JSON.parse throws or the
\* content is not text.  slice(0, 3) is SubSeq(_, 1, min(3, Len)).
generateClarifyingQuestionsOracle(parsedRequest, product, pricing, ai) ==
    LET questions == IF ai.ok THEN ai.questions
                     ELSE FallbackQuestions(parsedRequest, product, pricing)
    IN  IF MissingFields(parsedRequest, product, pricing) = <<>> THEN <<>>
        ELSE SubSeq(questions, 1, IF Len(questions) < 3 THEN Len(questions) ELSE 3)

\* the price of the last break, in array order, that the quantity reaches (0: none)
RECURSIVE BreakPrice(_, _, _)
BreakPrice(priceBreaks, quantity, price) ==
    IF priceBreaks = <<>> THEN price
    ELSE BreakPrice(Tail(priceBreaks), quantity,
                    IF quantity >= Head(priceBreaks).quantity
                    THEN Head(priceBreaks).price ELSE price)

\* ai-assistant.ts lines 628-724
buildLegacyLineItem(parsedRequest, product, pricing, selectedOptions) ==
    LET q == OrNum(selectedOptions.quantity, parsedRequest.quantity)
        quantity == IF TruthyNum(q) THEN q[1] ELSE 1
        c == OrStr(selectedOptions.color, parsedRequest.color)
        color == IF TruthyStr(c) THEN c[1] ELSE <<>>
        pi == FirstIndex({ i \in 1..Len(product.parts) :
                  \E j \in 1..Len(product.parts[i].colors) :
                      includes(toLowerCase(product.parts[i].colors[j]),
                               toLowerCase(color)) })
        selectedPart == IF pi # 0 THEN product.parts[pi] ELSE product.parts[1]
        unitPrice == BreakPrice(pricing.priceBreaks, quantity, 0)
        decorationMethod ==
            OrStr(selectedOptions.decorationMethod, parsedRequest.decorationMethod)
        dc == OrNum(selectedOptions.decorationColors, parsedRequest.decorationColors)
        decorationColors == IF TruthyNum(dc) THEN dc[1] ELSE 1
        si == FirstIndex({ i \in 1..Len(pricing.charges) :
                  \/ LowerWord(pricing.charges[i].chargeType) = "setup"
                  \/ includes(toLowerCase(pricing.charges[i].chargeName), <<"setup">>) })
        ri == FirstIndex({ i \in 1..Len(pricing.charges) :
                  \/ LowerWord(pricing.charges[i].chargeType) = "run"
                  \/ includes(toLowerCase(pricing.charges[i].chargeName), <<"imprint">>)
                  \/ includes(toLowerCase(pricing.charges[i].chargeName),
                              <<"decoration">>) })
        runPrice == IF ri = 0 THEN 0
                    ELSE BreakPrice(pricing.charges[ri].priceBreaks, quantity, 0)
        setupLine == IF si # 0 /\ Len(pricing.charges[si].priceBreaks) > 0
                     THEN <<LineItemCharge(pricing.charges[si].chargeName, 1,
                                           pricing.charges[si].priceBreaks[1].price,
                                           pricing.charges[si].priceBreaks[1].price)>>
                     ELSE <<>>
        runLine == IF runPrice > 0
                   THEN <<LineItemCharge(pricing.charges[ri].chargeName, quantity,
                                         runPrice * decorationColors,
                                         runPrice * decorationColors * quantity)>>
                   ELSE <<>>
        charges == IF TruthyStr(decorationMethod) THEN setupLine \o runLine ELSE <<>>
        extendedPrice == unitPrice * quantity
    IN  [productId |-> product.productId,
         partId |-> selectedPart.partId,
         color |-> color,
         quantity |-> quantity,
         unitPrice |-> unitPrice,
         extendedPrice |-> extendedPrice,
         decorationMethod |-> decorationMethod,
         decorationColors |-> decorationColors,
         charges |-> charges,
         totalWithCharges |-> extendedPrice + SumExtended(charges)]

\* part_004 lines 50-57: the values that are neither null nor undefined are written
mergeSelectedOptions(selectedOptions, extractedInfo) ==
    [f \in DOMAIN selectedOptions |->
        IF extractedInfo[f] # None THEN extractedInfo[f] ELSE selectedOptions[f]]

\* part_004 lines 160-173: the catch block of POST
LegacyErrorResponse == LegacyResponse("error", FALSE, Some(InitialState))

\* part_004 lines 105-151: the state has a product and a pricing.  questions: the
\* value generateClarifyingQuestions returned at line 108.
LegacyPriced(loaded, questions) ==
    IF Len(questions) > 0
    THEN LegacyResponse("question", TRUE,
                        Some([loaded EXCEPT !.step = "clarifying_options",
                                            !.questions = questions]))
    ELSE LegacyResponse("lineItem", TRUE,
                        Some([loaded EXCEPT
                                 !.lineItem = Some(buildLegacyLineItem(
                                                      loaded.parsedRequest,
                                                      loaded.product[1],
                                                      loaded.pricing[1],
                                                      loaded.selectedOptions)),
                                 !.step = "complete",
                                 !.questions = <<>>]))

\* part_004 lines 89-158
LegacyAfterLookup(loaded) ==
    IF loaded.parsedRequest.productId = None
    THEN LegacyResponse("askProduct", TRUE,
                        Some([loaded EXCEPT !.step = "clarifying_product",
                                            !.questions = <<"productId">>]))
    ELSE IF loaded.product # None /\ loaded.pricing # None
    THEN LegacyPriced(loaded,
                      generateClarifyingQuestions(loaded.parsedRequest, loaded.product[1],
                                                  loaded.pricing[1],
                                                  loaded.selectedOptions))
    ELSE LegacyResponse("fallback", TRUE, Some(loaded))

\* part_004 lines 59-87.  found: the pricing lookup returns a pricing.
LegacyLookup(merged, found) ==
    IF merged.product = None /\ merged.parsedRequest.productId # None
    THEN IF getProduct(merged.parsedRequest.productId[1]) = None
         THEN LegacyResponse("productNotFound", TRUE,
                             Some([merged EXCEPT !.questions = <<"productId">>]))
         ELSE LegacyAfterLookup(
                  [merged EXCEPT
                      !.product = getProduct(merged.parsedRequest.productId[1]),
                      !.step = "product_found",
                      !.pricing = getPricing(merged.parsedRequest.productId[1], found)])
    ELSE LegacyAfterLookup(merged)

\* part_004 lines 44-57
LegacyMerged(state, extractedInfo) ==
    [state EXCEPT !.parsedRequest = mergeInfo(@, extractedInfo),
                  !.selectedOptions = mergeSelectedOptions(@, extractedInfo)]

\* part_004 lines 31-174 for the state of line 24.  oracleUp: the calls of the oracle
\* return (an unparsable reply is ai.ok = FALSE).
LegacyHandle(userInput, state, oracleUp, ai, found) ==
    IF ~oracleUp THEN LegacyErrorResponse
    ELSE IF detectUserIntent(userInput, state) = "question"
    THEN LegacyResponse("answer", TRUE, Some(state))
    ELSE LegacyLookup(LegacyMerged(state, extractInfoFromResponse(ai)), found)

\* part_004 lines 15-174.  currentState: None when the request carries none.
LegacyPOST(userInput, currentState, oracleUp, ai, found) ==
    LegacyHandle(userInput,
                 IF currentState # None THEN currentState[1] ELSE InitialState,
                 oracleUp, ai, found)

---------------------------------------------------------------------------
(* The requests of the model. *)

\* what the user types (page.tsx trims the input and never sends an empty one)
Utterances ==
    { <<"order", "3", "of", "product", "55900">>,
      <<"order", "1", "of", "product", "5790">>,
      <<"product", "9999">>,
      <<"hello">>,
      <<"silk", "screen">>,
      <<"0", "color">>,
      <<"2">>,
      <<"reset">>,
      <<"start", "over">>,
      <<"new", "order">>,
      <<"clear">> }

\* what the oracle may answer to an extraction prompt of the option-selection handler
OracleReplies ==
    { OracleFailure,
      OracleReply([EmptyFields EXCEPT !.decorationMethod = Some(<<"laser", "engrave">>)]),
      OracleReply([EmptyFields EXCEPT !.color = Some(<<"blue">>),
                                      !.decorationLocation = Some(<<"wrap">>),
                                      !.decorationColors = Some(2)]) }

\* the values of parseUserRequest on the requests of the model
ParsedRequests ==
    [userInput \in Utterances |->
        [ai \in OracleReplies |-> parseUserRequest(userInput, ai)]]

\* the snapshots a conversation state can hold
Snapshots == UNION { LookupOutcomes(id) : id \in {"55900", "5790", "9999"} }

\* lines 170-177: parseUserResponse reads the state only for its prompt, so its value
\* is fixed by the snapshot, the input and the oracle's reply; the values on the
\* requests of the model
ParsedResponses ==
    [pricingData \in Snapshots |->
        [userInput \in Utterances |->
            [ai \in OracleReplies |->
                parseUserResponse(userInput, OptionsContext(pricingData), ai)]]]

\* the selectionUpdate bodies with a text value (null: the option is deselected)
TextSelections ==
    { [field |-> "decorationMethod", value |-> Some(<<"Laser", "Engrave">>)],
      [field |-> "decorationMethod", value |-> None] }

\* the selectionUpdate bodies with a numeric value
NumberSelections ==
    { [field |-> "decorationColors", value |-> Some(0)],
      [field |-> "decorationColors", value |-> Some(2)] }

\* the fields of the accumulated order
FieldNames == DOMAIN EmptyFields

\* the fields for which an extraction carries a value
Supplied(extracted) == { f \in FieldNames : extracted[f] # None }

\* a record of the last request: the branch of the handler that served it, the
\* fields it carried a value for, the fields it deselected, whether its body had
\* a currentState and, for a turn that parses the input (see ParsedTurn), the
\* input, the outcome of the oracle call, the value the parser returned and
\* whether getProductData answered
Turn(path, supplied, cleared) ==
    [path |-> path, supplied |-> supplied, cleared |-> cleared,
     withState |-> conversationState # None \/ legacyState # None,
     userInput |-> <<>>, oracleOk |-> TRUE, extracted |-> EmptyFields,
     productDataOk |-> TRUE]

NoTurn ==
    [path |-> "none", supplied |-> {}, cleared |-> {}, withState |-> FALSE,
     userInput |-> <<>>, oracleOk |-> TRUE, extracted |-> EmptyFields,
     productDataOk |-> TRUE]

\* the record of a turn that ran parseUserRequest (line 54) or parseUserResponse
\* (line 177) on the input
ParsedTurn(path, userInput, ai, extracted, productDataOk) ==
    [Turn(path, Supplied(extracted), {}) EXCEPT
        !.userInput = userInput, !.oracleOk = ai.ok, !.extracted = extracted,
        !.productDataOk = productDataOk]

---------------------------------------------------------------------------
(* The pricing specification: buildLineItem applied to bounded inputs. *)

\* price-break tables as parseConfigurationResponse leaves them: sorted ascending
\* by minQuantity (part_002 line 246)
PriceBreakTables ==
    { <<>>,
      <<PartPrice(2, 5)>>,
      <<PartPrice(1, 6), PartPrice(3, 4)>> }

SetupCharge == Charge(<<"Screen", "Setup">>, "Setup", <<ChargePrice(1, 1, "Colors", 50)>>)

ColorRunCharge(yMinQty) ==
    Charge(<<"Extra", "Color">>, "Run", <<ChargePrice(1, yMinQty, "Colors", 2)>>)

PieceRunCharge ==
    Charge(<<"Imprint">>, "Run", <<ChargePrice(1, 1, "EA", 3), ChargePrice(3, 1, "EA", 1)>>)

NoMatrixCharge == Charge(<<"Proof">>, "Setup", <<>>)

ChargeTables ==
    { <<>>, <<SetupCharge>>, <<NoMatrixCharge, PieceRunCharge>> }
    \cup { <<ColorRunCharge(y)>> : y \in 0..(MaxColors - 1) }
    \cup { <<SetupCharge, ColorRunCharge(y), PieceRunCharge>> : y \in 0..(MaxColors - 1) }

PriceCatalog(priceBreaks, unitsIncluded, charges) ==
    PricingConfiguration("55900",
        <<Part(<<"BLK">>, <<"BLACK">>, priceBreaks)>>,
        <<Location(<<"1">>, <<"FRONT">>,
                   <<Decoration(<<"Screen", "Print">>, unitsIncluded, MaxColors, charges)>>)>>)

PriceInputs ==
    { [parsedRequest |-> [EmptyFields EXCEPT !.decorationColors = pc],
       selectedOptions |->
           [EmptyFields EXCEPT !.quantity = q, !.partId = pid, !.decorationMethod = m,
                               !.decorationLocation = Some(<<"FRONT">>),
                               !.decorationColors = c],
       pricingData |-> Some(PriceCatalog(pb, inc, ch))] :
        pc \in {None, Some(2)},
        q \in {None} \cup {Some(n) : n \in 0..MaxQty},
        pid \in {Some(<<"BLK">>), Some(<<"RED">>)},
        m \in {None, Some(<<"Screen", "Print">>), Some(<<"embroidery">>)},
        c \in {None} \cup {Some(n) : n \in 0..MaxColors},
        pb \in PriceBreakTables,
        inc \in 0..(MaxColors - 1),
        ch \in ChargeTables }

InitPrice ==
    /\ priceIn \in PriceInputs
    /\ priceOut = [called |-> FALSE, lineItem |-> None]
    /\ firstIn = None
    /\ questionsIn = None
    /\ questionsOut = None
    /\ debugLogs = <<>>
    /\ inFlight = None
    /\ conversationState = None
    /\ response = NoResponse
    /\ lastTurn = NoTurn
    /\ legacyState = None
    /\ legacyResponse = NoLegacyResponse
    /\ deployed = "none"

CallBuildLineItem ==
    /\ ~priceOut.called
    /\ priceOut' = [called |-> TRUE,
                    lineItem |-> buildLineItem(priceIn.parsedRequest,
                                               priceIn.selectedOptions,
                                               priceIn.pricingData)]
    /\ UNCHANGED <<priceIn, firstIn, questionsIn, questionsOut, debugLogs, inFlight,
                   conversationState, response, lastTurn, legacyState, legacyResponse,
                   deployed>>

NextPrice == CallBuildLineItem

SpecPrice == InitPrice /\ [][NextPrice]_vars

\* the part, decoration and colour count buildLineItem was called with
PricedPart == priceIn.pricingData[1].parts[1]

PricedDecoration == priceIn.pricingData[1].locations[1].decorations[1]

PricedLineItem == priceOut.lineItem[1]

---------------------------------------------------------------------------
(* The dialogue: the client of page.tsx in front of one of the two handlers. *)

\* what the oracle may answer to the extraction prompt of the question-driven handler
LegacyOracleReplies ==
    { OracleFailure,
      OracleReply([EmptyFields EXCEPT !.productId = Some("55900"), !.quantity = Some(3)]),
      OracleReply([EmptyFields EXCEPT !.productId = Some("5790"), !.quantity = Some(1)]),
      OracleReply([EmptyFields EXCEPT !.productId = Some("9999")]),
      OracleReply([EmptyFields EXCEPT !.color = Some(<<"blue">>)]),
      OracleReply([EmptyFields EXCEPT !.decorationMethod = Some(<<"screen", "print">>)]),
      OracleReply([EmptyFields EXCEPT !.decorationColors = Some(2)]) }

\* what the user types to the question-driven handler
LegacyUtterances == { <<"hello">>, <<"what", "colors">> }

Init ==
    /\ deployed \in {"route", "legacy"}
    /\ conversationState = None
    /\ response = NoResponse
    /\ lastTurn = NoTurn
    /\ legacyState = None
    /\ legacyResponse = NoLegacyResponse
    /\ priceIn = None
    /\ priceOut = None
    /\ firstIn = None
    /\ questionsIn = None
    /\ questionsOut = None
    /\ debugLogs = <<>>
    /\ inFlight = None

\* page.tsx lines 37-57 for the option-selection handler: the response arrives and
\* the client adopts its state
Deliver(data, turn) ==
    /\ response' = data
    /\ conversationState' = ClientAdopt(conversationState, data)
    /\ lastTurn' = turn
    /\ UNCHANGED <<legacyState, legacyResponse, priceIn, priceOut, firstIn, questionsIn,
                   questionsOut, debugLogs, inFlight, deployed>>

\* route.ts lines 24-37: a reset command
Reset ==
    /\ deployed = "route"
    /\ \E userInput \in Utterances :
        /\ IsResetCommand(userInput)
        /\ Deliver(ResetResponse, Turn("reset", {}, {}))

\* route.ts lines 40-50: the quantity the input gives for an existing order (0: none)
QuantityUpdateOf(userInput) ==
    LET qtyMatch == QuantityOnlyMatch(userInput)
    IN  IF qtyMatch = None THEN 0 ELSE parseInt(qtyMatch[1])

\* route.ts lines 39-50: a quantity for an existing order
QuantityUpdate ==
    /\ deployed = "route"
    /\ conversationState # None
    /\ \E userInput \in Utterances :
        /\ ~IsResetCommand(userInput)
        /\ QuantityUpdateOf(userInput) > 0
        /\ \E productDataOk \in BOOLEAN :
           Deliver(handleSelectionUpdate(conversationState[1], "quantity",
                                         Some(QuantityUpdateOf(userInput)),
                                         productDataOk),
                   [Turn("quantity", {"quantity"}, {}) EXCEPT !.userInput = userInput])

\* the response to a first turn that parsed the given request arrives
DeliverFirstTurn(userInput, ai, parsed, found, productDataOk) ==
    Deliver(FirstTurnResponse(parsed, found, productDataOk),
            ParsedTurn("first", userInput, ai, parsed, productDataOk))

\* route.ts lines 52-166: the first turn
FirstTurn ==
    /\ deployed = "route"
    /\ conversationState = None
    /\ \E userInput \in Utterances :
        /\ ~IsResetCommand(userInput)
        /\ \E ai \in OracleReplies, found \in BOOLEAN, productDataOk \in BOOLEAN :
           DeliverFirstTurn(userInput, ai, ParsedRequests[userInput][ai], found,
                            productDataOk)

\* the response to a follow-up turn arrives.  parsed: the value parseUserResponse
\* returned at line 177.
DeliverFollowUp(userInput, ai, parsed, productDataOk) ==
    Deliver(FollowUpResponse(conversationState[1],
                             FollowUpExtraction(parsed, conversationState[1]),
                             productDataOk),
            ParsedTurn("followUp", userInput, ai, parsed, productDataOk))

\* route.ts lines 168-278: a follow-up turn
FollowUp ==
    /\ deployed = "route"
    /\ conversationState # None
    /\ \E userInput \in Utterances :
        /\ ~IsResetCommand(userInput)
        /\ QuantityUpdateOf(userInput) = 0
        /\ \E ai \in OracleReplies, productDataOk \in BOOLEAN :
           DeliverFollowUp(userInput, ai,
               ParsedResponses[conversationState[1].pricingData[1]][userInput][ai],
               productDataOk)

\* route.ts lines 18-21: a selection of the option panel
SelectionUpdate(selectionUpdate) ==
    /\ deployed = "route"
    /\ conversationState # None
    /\ \E productDataOk \in BOOLEAN :
       Deliver(handleSelectionUpdate(conversationState[1], selectionUpdate.field,
                                     selectionUpdate.value, productDataOk),
               Turn("selection",
                    IF selectionUpdate.value # None THEN {selectionUpdate.field} ELSE {},
                    IF selectionUpdate.value = None THEN {selectionUpdate.field} ELSE {}))

\* page.tsx lines 81-89: the client's reset button
HandleReset ==
    /\ deployed = "route"
    /\ conversationState # None
    /\ conversationState' = None
    /\ lastTurn' = Turn("handleReset", {}, {})
    /\ UNCHANGED <<response, legacyState, legacyResponse, priceIn, priceOut, firstIn,
                   questionsIn, questionsOut, debugLogs, inFlight,
                   deployed>>

\* page.tsx lines 37-57 in front of part_004: the response arrives and the client
\* adopts its state
DeliverLegacy(data, turn) ==
    /\ legacyResponse' = data
    /\ legacyState' = ClientAdopt(legacyState, data)
    /\ lastTurn' = turn
    /\ UNCHANGED <<conversationState, response, priceIn, priceOut, firstIn,
                   questionsIn, questionsOut, debugLogs, inFlight, deployed>>

\* part_004 lines 15-174: one turn of the question-driven handler
LegacyTurn ==
    /\ deployed = "legacy"
    /\ \E userInput \in LegacyUtterances, oracleUp \in BOOLEAN,
          ai \in LegacyOracleReplies, found \in BOOLEAN :
        DeliverLegacy(LegacyPOST(userInput, legacyState, oracleUp, ai, found),
                      Turn("legacy",
                           IF oracleUp /\ ~IsQuestion(userInput)
                           THEN Supplied(extractInfoFromResponse(ai)) ELSE {},
                           {}))

\* page.tsx lines 81-89 in front of part_004
LegacyHandleReset ==
    /\ deployed = "legacy"
    /\ legacyState # None
    /\ legacyState' = None
    /\ lastTurn' = Turn("handleReset", {}, {})
    /\ UNCHANGED <<conversationState, response, legacyResponse, priceIn, priceOut,
                   firstIn, questionsIn, questionsOut, debugLogs, inFlight, deployed>>

Next ==
    \/ Reset
    \/ QuantityUpdate
    \/ FirstTurn
    \/ FollowUp
    \/ \E selectionUpdate \in TextSelections : SelectionUpdate(selectionUpdate)
    \/ \E selectionUpdate \in NumberSelections : SelectionUpdate(selectionUpdate)
    \/ HandleReset
    \/ LegacyTurn
    \/ LegacyHandleReset

Spec == Init /\ [][Next]_vars

---------------------------------------------------------------------------
(* The first-turn specification: route.ts lines 56-165 applied to bounded  *)
(* parsed requests and catalog snapshots.                                  *)

\* the parsed requests and snapshots of the first-turn specification.  requests:
\* values parseUserRequest can return (line 54).  parts: the parts of a snapshot;
\* parseConfigurationResponse gives a part without a partDescription element the
\* description '' (part_002 line 223).  decorations: the decorations of a location,
\* none, one or two methods.  locations: none, one or two.
FirstInputs ==
    LET requests ==
            { [EmptyFields EXCEPT !.productId = id, !.quantity = q, !.color = c,
                                  !.decorationMethod = m, !.decorationColors = n] :
                id \in {None, Some("55900")},
                q \in {None} \cup { Some(k) : k \in 1..MaxQty },
                c \in {None, Some(<<"blue">>)},
                m \in {None, Some(<<"laser", "engrave">>)},
                n \in {None, Some(2)} }
        breaks == <<PartPrice(1, 6), PartPrice(3, 4)>>
        black == Part(<<"BLK">>, <<"BLACK">>, breaks)
        navy == Part(<<"NVY">>, <<"NAVY", "BLUE">>, breaks)
        blue == Part(<<"BLU">>, <<"BLUE">>, breaks)
        plain == Part(<<"STD">>, <<>>, breaks)
        parts == { <<black>>, <<plain>>, <<black, plain>>, <<black, navy, blue>> }
        decorations ==
            {<<>>, <<LaserEngrave>>}
            \cup UNION { { <<Decoration(<<"Screen", "Print">>, 1, u, <<SetupCharge>>)>>,
                           <<Decoration(<<"Screen", "Print">>, 1, u, <<SetupCharge>>),
                             LaserEngrave>> } : u \in {1, MaxColors} }
        locations ==
            {<<>>}
            \cup { <<Location(<<"1">>, <<"FRONT">>, d)>> : d \in decorations }
            \cup { <<Location(<<"1">>, <<"FRONT">>, d),
                     Location(<<"2">>, <<"WRAP">>, e)>> :
                       d \in decorations, e \in decorations }
    IN  { [parsedRequest |-> r, pricingData |-> PricingConfiguration("55900", p, l)] :
            r \in requests, p \in parts, l \in locations }

InitFirst ==
    /\ firstIn \in FirstInputs
    /\ questionsIn = None
    /\ questionsOut = None
    /\ debugLogs = <<>>
    /\ inFlight = None
    /\ deployed = "route"
    /\ conversationState = None
    /\ response = NoResponse
    /\ lastTurn = NoTurn
    /\ legacyState = None
    /\ legacyResponse = NoLegacyResponse
    /\ priceIn = None
    /\ priceOut = None

\* route.ts lines 56-165: the first turn for the parsed request, once the lookup has
\* returned the snapshot
ServeFirstTurn ==
    /\ lastTurn = NoTurn
    /\ Deliver(IF firstIn.parsedRequest.productId = None THEN NeedProductResponse
               ELSE SelectionResponse(NewState(firstIn.parsedRequest,
                                               firstIn.pricingData)),
               ParsedTurn("first", <<>>, OracleReply(EmptyFields),
                          firstIn.parsedRequest, TRUE))

SpecFirst == InitFirst /\ [][ServeFirstTurn]_vars

---------------------------------------------------------------------------
(* The questions specification: the generations of generateClarifyingQuestions *)
(* applied to bounded arguments.                                               *)

\* the arguments: what is known of the order, a product with its pricing (the two of
\* LegacyCatalog and one that offers its method at two locations) and the oracle's
\* reply to the prompt
QuestionInputs ==
    LET screenPrint == [decorationName |-> <<"Screen", "Print">>]
        twoLocations ==
            [LegacyCatalog["55900"] EXCEPT
                !.pricing.decorationLocations =
                    <<[locationName |-> <<"FRONT">>, decorationMethods |-> <<screenPrint>>],
                      [locationName |-> <<"WRAP">>, decorationMethods |-> <<screenPrint>>]>>]
    IN  { [parsedRequest |->
               [EmptyFields EXCEPT !.quantity = q, !.color = c, !.decorationMethod = m,
                                   !.decorationLocation = l, !.decorationColors = n],
           selectedOptions |-> [EmptyFields EXCEPT !.decorationColors = sn],
           product |-> entry.product,
           pricing |-> entry.pricing,
           ai |-> ai] :
            q \in {None, Some(MaxQty)},
            c \in {None, Some(<<"BLUE">>)},
            m \in {None, Some(<<"Screen", "Print">>)},
            l \in {None, Some(<<"FRONT">>)},
            n \in {None, Some(2)},
            sn \in {None, Some(1)},
            entry \in {LegacyCatalog["55900"], LegacyCatalog["5790"], twoLocations},
            ai \in { [ok |-> FALSE, questions |-> <<>>],
                     [ok |-> TRUE, questions |-> <<>>],
                     [ok |-> TRUE, questions |-> <<"quantity">>],
                     [ok |-> TRUE, questions |-> <<"quantity", "color", "decorationMethod",
                                                   "decorationColors">>] } }

InitQuestions ==
    /\ questionsIn \in QuestionInputs
    /\ questionsOut = [called |-> FALSE, oracle |-> <<>>, focused |-> <<>>]
    /\ debugLogs = <<>>
    /\ inFlight = None
    /\ priceIn = None
    /\ priceOut = None
    /\ firstIn = None
    /\ conversationState = None
    /\ response = NoResponse
    /\ lastTurn = NoTurn
    /\ legacyState = None
    /\ legacyResponse = NoLegacyResponse
    /\ deployed = "none"

\* the two generations are called with the arguments: part_000 lines 84-192 (oracle)
\* and ai-assistant.ts lines 559-624 (focused), as part_004 line 108 calls it
CallGenerateClarifyingQuestions ==
    /\ ~questionsOut.called
    /\ questionsOut' =
           [called |-> TRUE,
            oracle |-> generateClarifyingQuestionsOracle(
                           questionsIn.parsedRequest, questionsIn.product,
                           questionsIn.pricing, questionsIn.ai),
            focused |-> generateClarifyingQuestions(
                            questionsIn.parsedRequest, questionsIn.product,
                            questionsIn.pricing, questionsIn.selectedOptions)]
    /\ UNCHANGED <<questionsIn, debugLogs, inFlight, priceIn, priceOut, firstIn,
                   conversationState, response, lastTurn, legacyState, legacyResponse,
                   deployed>>

SpecQuestions == InitQuestions /\ [][CallGenerateClarifyingQuestions]_vars

---------------------------------------------------------------------------
(* The debug-log specification: two process-order requests served by one      *)
(* process.  A handler runs until its next await, so the steps of the two      *)
(* requests interleave between the calls that touch the array.                 *)

Requests == {1, 2}

InitLogs ==
    /\ debugLogs = <<>>
    /\ inFlight = [r \in Requests |-> [pc |-> "arrived", logged |-> <<>>, returned |-> <<>>]]
    /\ questionsIn = None
    /\ questionsOut = None
    /\ priceIn = None
    /\ priceOut = None
    /\ firstIn = None
    /\ conversationState = None
    /\ response = NoResponse
    /\ lastTurn = NoTurn
    /\ legacyState = None
    /\ legacyResponse = NoLegacyResponse
    /\ deployed = "route"

\* route.ts lines 6-11 with part_002 lines 29-31: the handler of request r starts,
\* replaces the array by an empty one and awaits the body
clearDebugLogs(r) ==
    /\ inFlight[r].pc = "arrived"
    /\ debugLogs' = <<>>
    /\ inFlight' = [inFlight EXCEPT ![r].pc = "serving"]
    /\ UNCHANGED <<questionsIn, questionsOut, priceIn, priceOut, firstIn,
                   conversationState, response, lastTurn, legacyState, legacyResponse,
                   deployed>>

\* part_002 lines 33-41, called at lines 59, 76, 85, 177, 192 and 201 around the
\* awaited fetches of the lookup of request r: an entry is pushed onto the array
addDebugLog(r) ==
    /\ inFlight[r].pc = "serving"
    /\ Len(inFlight[r].logged) < MaxLogEntries
    /\ LET entry == [request |-> r, operation |-> Len(inFlight[r].logged) + 1]
       IN  /\ debugLogs' = Append(debugLogs, entry)
           /\ inFlight' = [inFlight EXCEPT ![r].logged = Append(@, entry)]
    /\ UNCHANGED <<questionsIn, questionsOut, priceIn, priceOut, firstIn,
                   conversationState, response, lastTurn, legacyState, legacyResponse,
                   deployed>>

\* part_002 lines 25-27, called where route.ts builds a response (lines 35, 61, 146,
\* 164, 253, 277, 285): the response of request r is given the array as it is now
getDebugLogs(r) ==
    /\ inFlight[r].pc = "serving"
    /\ inFlight' = [inFlight EXCEPT ![r].pc = "responded", ![r].returned = debugLogs]
    /\ UNCHANGED <<debugLogs, questionsIn, questionsOut, priceIn, priceOut, firstIn,
                   conversationState, response, lastTurn, legacyState, legacyResponse,
                   deployed>>

NextLogs ==
    \E r \in Requests : clearDebugLogs(r) \/ addDebugLog(r) \/ getDebugLogs(r)

SpecLogs == InitLogs /\ [][NextLogs]_vars

---------------------------------------------------------------------------
(* Claims about buildLineItem, checked under SpecPrice. *)

LowestMinQuantity(part) ==
    CHOOSE m \in {part.priceBreaks[i].minQuantity : i \in 1..Len(part.priceBreaks)} :
        \A i \in 1..Len(part.priceBreaks) : m <= part.priceBreaks[i].minQuantity

\* buildLineItem was called for a part of the catalog with a quantity below the
\* part's lowest price break
BelowMinimumCall ==
    /\ priceOut.called
    /\ priceIn.selectedOptions.partId = Some(PricedPart.partId)
    /\ TruthyNum(priceIn.selectedOptions.quantity)
    /\ PricedPart.priceBreaks # <<>>
    /\ priceIn.selectedOptions.quantity[1] < LowestMinQuantity(PricedPart)

\* C2: for every selected part and every requested quantity below the part's lowest
\* price break, buildLineItem returns a failure and never a line item (whose unit
\* price would be 0).
C2_BelowMinimumIsFailure == BelowMinimumCall => priceOut.lineItem = None

ChargeSum(charges) ==
    LET Upto[n \in 0..Len(charges)] ==
            IF n = 0 THEN 0 ELSE Upto[n - 1] + charges[n].extendedPrice
    IN  Upto[Len(charges)]

\* C3: every line item produced by buildLineItem has totalWithCharges equal to
\* extendedPrice plus the sum of the extended prices of its charge lines, and
\* extendedPrice equal to unitPrice times quantity.
C3_TotalsAddUp ==
    priceOut.lineItem # None =>
        /\ PricedLineItem.totalWithCharges =
               PricedLineItem.extendedPrice + ChargeSum(PricedLineItem.charges)
        /\ PricedLineItem.extendedPrice =
               PricedLineItem.unitPrice * PricedLineItem.quantity

\* a line item with a positive unit price and three charge lines
C3_Witness ==
    /\ priceOut.lineItem # None
    /\ PricedLineItem.unitPrice > 0
    /\ Len(PricedLineItem.charges) = 3
    /\ PricedLineItem.totalWithCharges > PricedLineItem.extendedPrice

\* C4: in every line item produced by buildLineItem each charge line has
\* extendedPrice equal to quantity times unitPrice of that same line.
C4_ChargeLinesMultiply ==
    priceOut.lineItem # None =>
        \A i \in 1..Len(PricedLineItem.charges) :
            PricedLineItem.charges[i].extendedPrice =
                PricedLineItem.charges[i].quantity * PricedLineItem.charges[i].unitPrice

\* the names of the colour-keyed (yUom = 'Colors') Run charges of a decoration
ColorKeyedRunCharges(decoration) ==
    { decoration.charges[i].chargeName : i \in
        { j \in 1..Len(decoration.charges) :
            /\ decoration.charges[j].chargeType = "Run"
            /\ Len(decoration.charges[j].priceArray) > 0
            /\ decoration.charges[j].priceArray[1].yUom = "Colors" } }

HasColorKeyedLine(lineItem, decoration) ==
    \E i \in 1..Len(lineItem.charges) :
        lineItem.charges[i].name \in ColorKeyedRunCharges(decoration)

\* C5: for every decoration, quantity and decorationColors with decorationColors <=
\* decorationUnitsIncluded, the line item produced by buildLineItem has no charge
\* line for a colour-keyed Run charge.
C5_NoExtraColorLineWithinIncluded ==
    ( /\ priceOut.lineItem # None
      /\ priceIn.selectedOptions.decorationColors # None
      /\ priceIn.selectedOptions.decorationColors[1] <=
             PricedDecoration.decorationUnitsIncluded )
    => ~HasColorKeyedLine(PricedLineItem, PricedDecoration)

\* the same statement on the colour count buildLineItem computes at line 362
C5_OnEffectiveColors ==
    ( /\ priceOut.lineItem # None
      /\ PricedLineItem.decorationColors <= PricedDecoration.decorationUnitsIncluded )
    => ~HasColorKeyedLine(PricedLineItem, PricedDecoration)

\* the line item has a field that marks its pricing as provisional
HasDataGapWarning(lineItem) ==
    \E f \in {"warning", "warnings", "provisional", "dataGap"} : f \in DOMAIN lineItem

\* C14: when a decoration was requested and the catalog gives the resolved decoration
\* no charges, the line item buildLineItem returns carries a data-gap warning or a
\* provisional flag; it is not returned as ordinary pricing.
C14_ZeroChargesAreFlagged ==
    ( /\ priceOut.lineItem # None
      /\ priceIn.selectedOptions.decorationMethod = Some(PricedDecoration.decorationName)
      /\ PricedDecoration.charges = <<>> )
    => HasDataGapWarning(PricedLineItem)

\* the price breaks are in ascending order of minQuantity
SortedAscending(priceBreaks) ==
    \A i, j \in 1..Len(priceBreaks) :
        i <= j => priceBreaks[i].minQuantity <= priceBreaks[j].minQuantity

\* the indices of the breaks the quantity reaches
ReachedBreaks(priceBreaks, quantity) ==
    { i \in 1..Len(priceBreaks) : priceBreaks[i].minQuantity <= quantity }

\* C19: for every part whose priceBreaks are sorted ascending by minQuantity and
\* every quantity at or above the lowest break, the unitPrice computed by
\* buildLineItem is the price of the break with the greatest minQuantity that is
\* at most the quantity.
C19_UnitPriceIsGreatestReachedBreak ==
    ( /\ priceOut.lineItem # None
      /\ PricedPart.priceBreaks # <<>>
      /\ SortedAscending(PricedPart.priceBreaks)
      /\ PricedLineItem.quantity >= PricedPart.priceBreaks[1].minQuantity )
    => \E i \in ReachedBreaks(PricedPart.priceBreaks, PricedLineItem.quantity) :
          /\ \A j \in ReachedBreaks(PricedPart.priceBreaks, PricedLineItem.quantity) :
                 PricedPart.priceBreaks[j].minQuantity <=
                     PricedPart.priceBreaks[i].minQuantity
          /\ PricedLineItem.unitPrice = PricedPart.priceBreaks[i].price

\* a quantity that reaches the second of two breaks is priced at the second,
\* which is the lower price
C19_Witness ==
    /\ priceOut.lineItem # None
    /\ Len(PricedPart.priceBreaks) = 2
    /\ PricedLineItem.quantity >= PricedPart.priceBreaks[2].minQuantity
    /\ PricedLineItem.unitPrice = PricedPart.priceBreaks[2].price
    /\ PricedLineItem.unitPrice < PricedPart.priceBreaks[1].price

\* the colour-keyed Run charges of a decoration that have a price matrix
ColorKeyedRunChargeIndices(decoration) ==
    { j \in 1..Len(decoration.charges) :
        /\ decoration.charges[j].chargeType = "Run"
        /\ Len(decoration.charges[j].priceArray) > 0
        /\ decoration.charges[j].priceArray[1].yUom = "Colors" }

\* C20: for every colour-keyed Run charge (yUom = 'Colors') of the resolved
\* decoration, whenever decorationColors exceeds decorationUnitsIncluded the line
\* item has a charge line for it whose extended price is matrixPrice x quantity x
\* (decorationColors - decorationUnitsIncluded), whatever the charge's yMinQty is.
C20_ExtraColorLineWhateverYMinQty ==
    ( /\ priceOut.lineItem # None
      /\ priceIn.selectedOptions.decorationMethod = Some(PricedDecoration.decorationName)
      /\ PricedLineItem.decorationColors > PricedDecoration.decorationUnitsIncluded )
    => \A j \in ColorKeyedRunChargeIndices(PricedDecoration) :
          \E i \in 1..Len(PricedLineItem.charges) :
              /\ PricedLineItem.charges[i].name = PricedDecoration.charges[j].chargeName
              /\ PricedLineItem.charges[i].extendedPrice =
                     PricedDecoration.charges[j].priceArray[1].price
                         * PricedLineItem.quantity
                         * (PricedLineItem.decorationColors
                                - PricedDecoration.decorationUnitsIncluded)

\* the Run charges of a decoration that have a price matrix and are not colour-keyed
PerPieceRunChargeIndices(decoration) ==
    { j \in 1..Len(decoration.charges) :
        /\ decoration.charges[j].chargeType = "Run"
        /\ Len(decoration.charges[j].priceArray) > 0
        /\ decoration.charges[j].priceArray[1].yUom # "Colors" }

\* the entries of a charge price matrix the quantity reaches
ReachedEntries(priceArray, quantity) ==
    { k \in 1..Len(priceArray) : priceArray[k].xMinQty <= quantity }

\* the price of the matrix entry with the greatest xMinQty the quantity reaches
MatrixPriceAt(priceArray, quantity) ==
    priceArray[CHOOSE k \in ReachedEntries(priceArray, quantity) :
                  \A l \in ReachedEntries(priceArray, quantity) :
                      priceArray[l].xMinQty <= priceArray[k].xMinQty].price

\* C21: for every Run charge that is not colour-keyed, the charge line's unit price is
\* the price of the matrix entry whose xMinQty is the greatest one at most the order
\* quantity, and its extended price is that price times the quantity; it is not the
\* first entry's price when the quantity falls into a later break.
C21_RunChargeUsesQuantityBreak ==
    ( /\ priceOut.lineItem # None
      /\ priceIn.selectedOptions.decorationMethod = Some(PricedDecoration.decorationName) )
    => \A j \in PerPieceRunChargeIndices(PricedDecoration) :
          ReachedEntries(PricedDecoration.charges[j].priceArray,
                         PricedLineItem.quantity) # {}
          => \E i \in 1..Len(PricedLineItem.charges) :
                /\ PricedLineItem.charges[i].name = PricedDecoration.charges[j].chargeName
                /\ PricedLineItem.charges[i].unitPrice =
                       MatrixPriceAt(PricedDecoration.charges[j].priceArray,
                                     PricedLineItem.quantity)
                /\ PricedLineItem.charges[i].extendedPrice =
                       MatrixPriceAt(PricedDecoration.charges[j].priceArray,
                                     PricedLineItem.quantity) * PricedLineItem.quantity

---------------------------------------------------------------------------
(* Claims about the dialogue, checked under Spec. *)

\* the fields of the accumulated order, color and partId being one field
FieldGroups ==
    { {"productId"}, {"quantity"}, {"color", "partId"}, {"decorationMethod"},
      {"decorationLocation"}, {"decorationColors"} }

\* every set field for which the turn carried no value and no deselection has in
\* after the value it has in before
KeptIn(before, after, turn) ==
    \A g \in FieldGroups :
        (g \cap (turn.supplied \cup turn.cleared) = {})
        => \A f \in g : before[f] # None => after[f] = before[f]

\* a later turn of the option-selection handler keeps the untouched selected options
RouteTurnKeeps ==
    ( /\ lastTurn'.path \in {"followUp", "quantity", "selection"}
      /\ conversationState # None
      /\ conversationState' # None )
    => /\ KeptIn(conversationState[1].selectedOptions,
                 conversationState'[1].selectedOptions, lastTurn')
       /\ KeptIn(conversationState[1].parsedRequest,
                 conversationState'[1].parsedRequest, lastTurn')

\* a later turn of the question-driven handler keeps the untouched fields
LegacyTurnKeeps ==
    ( /\ lastTurn'.path = "legacy"
      /\ legacyState # None
      /\ legacyState' # None )
    => /\ KeptIn(legacyState[1].parsedRequest, legacyState'[1].parsedRequest, lastTurn')
       /\ KeptIn(legacyState[1].selectedOptions, legacyState'[1].selectedOptions,
                 lastTurn')

\* C1: across any sequence of turns, a field of the accumulated order that is set
\* keeps its value over a turn whose extraction yields nothing for it; only a turn
\* that supplies a value for the field, or deselects it, changes it.
C1_SetFieldsAreSticky == [][RouteTurnKeeps /\ LegacyTurnKeeps]_vars

\* C1: a follow-up turn that extracted a decoration method only has been answered, and
\* the quantity and the part of the earlier turns are still selected
C1_Witness ==
    /\ lastTurn.path = "followUp"
    /\ lastTurn.supplied = {"decorationMethod"}
    /\ response.kind \in {"options", "summary"}
    /\ conversationState # None
    /\ conversationState[1].selectedOptions.quantity # None
    /\ conversationState[1].selectedOptions.partId # None

\* the decorationUnitsMax values of the selected method: at the selected location, at
\* every location when none is selected
MethodUnitsMax(pricingData, selectedOptions) ==
    LET locations ==
            SelectSeq(pricingData.locations,
                      LAMBDA l : selectedOptions.decorationLocation
                                     \in {None, Some(l.locationName)})
        decorations == AllDecorations(locations)
    IN  { decorations[i].decorationUnitsMax :
            i \in { j \in 1..Len(decorations) :
                        Some(decorations[j].decorationName)
                            = selectedOptions.decorationMethod } }

\* C6: whenever the resolved decoration method has decorationUnitsMax = 1, the number
\* of imprint colours is set without the user being asked and is not reported as
\* a missing field, whatever the other methods of the catalog allow and whatever the
\* turn that resolved the method.
C6_SingleColorMethodNeedsNoColorCount ==
    ( /\ response.state # None
      /\ MethodUnitsMax(response.state[1].pricingData[1],
                        response.state[1].selectedOptions) = {1} )
    => /\ response.state[1].selectedOptions.decorationColors # None
       /\ ~response.requiredFields[1].decorationColors

\* C7: an explicit decorationColors of 0 is distinguished from unset: it is not
\* reported as missing, and the line item built from the state carries 0 colours.
C7_ExplicitZeroIsKept ==
    ( /\ response.state # None
      /\ response.state[1].selectedOptions.decorationColors = Some(0) )
    => /\ ~response.requiredFields[1].decorationColors
       /\ response.kind = "summary"
              => response.state[1].lineItem[1].decorationColors = 0

\* a turn of the question-driven handler, no reset, between two held states
LegacyStep ==
    /\ lastTurn'.path = "legacy"
    /\ legacyState # None
    /\ legacyState' # None

\* C8: without a reset the step never moves to an earlier stage: a turn taken at step
\* 'complete' does not lead to a clarifying step, and a turn taken with a loaded
\* product does not lead to 'initial'.
C8_StepNeverMovesBack ==
    [][LegacyStep =>
          /\ legacyState[1].step = "complete"
                 => legacyState'[1].step \notin {"clarifying_product", "clarifying_options"}
          /\ legacyState[1].product # None => legacyState'[1].step # "initial"]_vars

\* C9: a turn whose utterance is a reset command returns a response without a
\* conversation state (hence without a line item), the client holds no state after
\* it, and the turn after it is processed as a first turn.
C9_ResetStartsOver ==
    [][/\ lastTurn'.path = "reset"
          => /\ response'.kind = "reset"
             /\ response'.state = None
             /\ conversationState' = None
       /\ lastTurn.path = "reset"
          => /\ lastTurn'.path \in {"first", "reset"}
             /\ ~lastTurn'.withState]_vars

\* C9: a reset command sent with a conversation state has been answered
C9_Witness ==
    /\ lastTurn.path = "reset"
    /\ lastTurn.withState
    /\ response.kind = "reset"
    /\ conversationState = None

\* C10: a first turn whose product id does not resolve in the catalog lookup returns
\* no conversation state with a catalog snapshot and offers no option selection.
C10_UnresolvedProductStaysInitial ==
    ( /\ lastTurn.path = "first"
      /\ response.state # None )
    => response.state[1].pricingData[1]
           # EmptyConfiguration(response.state[1].pricingData[1].productId)

\* the responses of a turn that ran to one of the handler's own return statements
NormalResponses == {"needProduct", "options", "summary"}

\* C11: when the oracle call throws or its reply cannot be parsed, parseUserRequest
\* returns exactly the quantity and the product id of its regular expressions,
\* parseUserResponse returns exactly the fields of tryDirectMatch, and the turn is
\* answered by a normal response (as long as the catalog answers).
C11_OracleFailureFallsBack ==
    ~lastTurn.oracleOk =>
        /\ lastTurn.path = "first" =>
               lastTurn.extracted =
                   [EmptyFields EXCEPT
                       !.quantity = RequestQuantity(lastTurn.userInput),
                       !.productId =
                           RequestProductId(lastTurn.userInput,
                                            RequestQuantity(lastTurn.userInput))]
        /\ lastTurn.path = "followUp" =>
               lastTurn.extracted =
                   tryDirectMatch(lastTurn.userInput,
                                  OptionsContext(conversationState[1].pricingData[1]))
        /\ lastTurn.productDataOk => response.kind \in NormalResponses

\* C11: a follow-up turn whose oracle call failed has been answered, and the direct
\* match found a decoration method in the input
C11_Witness ==
    /\ lastTurn.path = "followUp"
    /\ ~lastTurn.oracleOk
    /\ lastTurn.extracted.decorationMethod # None
    /\ response.kind \in {"options", "summary"}

\* C12: every turn of the option-selection handler ends with a JSON response: a
\* failure of a catalog or product-data call on the first-turn path, the follow-up
\* path and the selection-update or quantity-update path is turned into a response
\* and never leaves the handler as a rejection.
C12_EveryTurnEndsWithJson ==
    lastTurn.path \in {"first", "followUp", "quantity", "selection"}
    => response.kind # "rejected"

\* every required field of the state is filled, and the selected part is not in the
\* snapshot or the selected method is not offered at the selected location
UnresolvedSelection(state) ==
    LET pd == state.pricingData[1]
        selected == state.selectedOptions
        li == FindLocation(pd, selected.decorationLocation[1])
    IN  /\ allRequiredFieldsFilled(getRequiredFields(selected))
        /\ \/ \A i \in 1..Len(pd.parts) : pd.parts[i].partId # selected.partId[1]
           \/ li = 0
           \/ FindDecoration(pd.locations[li], selected.decorationMethod[1]) = 0

\* C13: when pricing runs and the selected part is not in the snapshot, or the
\* selected method is not offered at the selected location, the turn reports an
\* error: it returns neither a line item nor the option list of a pending selection.
C13_UnresolvedSelectionIsReported ==
    ( /\ response.state # None
      /\ UnresolvedSelection(response.state[1]) )
    => response.kind \notin {"summary", "options"}

---------------------------------------------------------------------------
(* Claims about the first turn, checked under SpecFirst. *)

\* a first turn that supplied a product id and a quantity, and nothing else, was
\* answered for a snapshot with one part, one location and one decoration method
\* whose decorationUnitsMax is 1
SingleOptionFirstTurn ==
    /\ lastTurn.path = "first"
    /\ lastTurn.supplied = {"productId", "quantity"}
    /\ response.state # None
    /\ Len(firstIn.pricingData.parts) = 1
    /\ Len(firstIn.pricingData.locations) = 1
    /\ Len(firstIn.pricingData.locations[1].decorations) = 1
    /\ firstIn.pricingData.locations[1].decorations[1].decorationUnitsMax = 1

\* the response reports no missing field and carries a line item with the quantity
\* of the request, the sole part, method and location, and one imprint colour
CompletedInOneTurn ==
    LET pd == firstIn.pricingData
        lineItem == response.state[1].lineItem
    IN  /\ response.kind = "summary"
        /\ getMissingFieldsList(response.requiredFields[1]) = <<>>
        /\ lineItem # None
        /\ lineItem[1].quantity = firstIn.parsedRequest.quantity[1]
        /\ lineItem[1].partId = pd.parts[1].partId
        /\ lineItem[1].decorationMethod =
               Some(pd.locations[1].decorations[1].decorationName)
        /\ lineItem[1].decorationLocation = Some(pd.locations[1].locationName)
        /\ lineItem[1].decorationColors = 1

\* C15: for a catalog with exactly one part, one location and one decoration method
\* with unitsMax = 1, a first turn that supplies a product id and a quantity q
\* completes in that turn: nothing is missing and the line item has quantity q, the
\* sole part, method and location, and decorationColors = 1.
C15_SingleOptionCatalogCompletes == SingleOptionFirstTurn => CompletedInOneTurn

\* the same statement restricted to a catalog whose sole part has a description;
\* there the first turn does complete
C15_DescribedPartCompletes ==
    ( /\ SingleOptionFirstTurn
      /\ firstIn.pricingData.parts[1].partDescription # <<>> )
    => CompletedInOneTurn

\* such a first turn, on a described part, has been answered with the line item
\* for the highest quantity of the model
C15_Witness ==
    /\ SingleOptionFirstTurn
    /\ firstIn.pricingData.parts[1].partDescription # <<>>
    /\ response.kind = "summary"
    /\ response.state[1].lineItem[1].quantity = MaxQty

\* the names of the required fields in the order of the claim, each with the selected
\* option that fills it
FixedOrder ==
    << [name |-> "quantity", field |-> "quantity"],
       [name |-> "color", field |-> "partId"],
       [name |-> "decoration method", field |-> "decorationMethod"],
       [name |-> "decoration location", field |-> "decorationLocation"],
       [name |-> "imprint colors", field |-> "decorationColors"] >>

\* the names of FixedOrder whose field is unset in the selected options, in that order
UnsetInFixedOrder(selectedOptions) ==
    LET unset == SelectSeq(FixedOrder, LAMBDA r : selectedOptions[r.field] = None)
    IN  [i \in 1..Len(unset) |-> unset[i].name]

\* the missing-field list of the response (route.ts lines 152 and 156)
ReportedMissing == getMissingFieldsList(response.requiredFields[1])

\* a first turn that supplied a product id and a quantity, and nothing else, was
\* answered for a snapshot with 3 colours, 2 decoration methods and one location
ThreeColoursTwoMethods ==
    /\ lastTurn.path = "first"
    /\ lastTurn.supplied = {"productId", "quantity"}
    /\ response.state # None
    /\ Len(firstIn.pricingData.parts) = 3
    /\ Len(firstIn.pricingData.locations) = 1
    /\ Len(firstIn.pricingData.locations[1].decorations) = 2

\* some decoration method of the snapshot allows more than one imprint colour
SomeMethodHasColours ==
    \E i \in 1..Len(firstIn.pricingData.locations[1].decorations) :
        firstIn.pricingData.locations[1].decorations[i].decorationUnitsMax > 1

---------------------------------------------------------------------------
(* Further claims about the dialogue, checked under Spec. *)

\* the line item of the state the request carried (None: no state, or none built yet)
CarriedLineItem ==
    IF conversationState = None THEN None ELSE conversationState[1].lineItem

\* C17: a turn produces a line item only if, after its merge, none of the required
\* fields (quantity, color/partId, decoration method, decoration location, imprint
\* colors) is missing; while one is missing the response carries no newly built
\* line item (its state has the line item the request carried, if any).
C17_LineItemOnlyWhenComplete ==
    [][( /\ lastTurn'.path \in {"first", "followUp", "quantity", "selection"}
         /\ response'.state # None )
       => /\ response'.kind = "summary"
                => UnsetInFixedOrder(response'.state[1].selectedOptions) = <<>>
          /\ UnsetInFixedOrder(response'.state[1].selectedOptions) # <<>>
                => response'.state[1].lineItem = CarriedLineItem]_vars

\* C17: a follow-up turn filled the last missing field and was answered with the
\* line item
C17_Witness ==
    /\ lastTurn.path = "followUp"
    /\ response.kind = "summary"
    /\ response.state[1].lineItem # None
    /\ UnsetInFixedOrder(response.state[1].selectedOptions) = <<>>

\* C18: once a line item has been produced, no later turn other than a reset changes
\* the line item carried in the conversation state: a follow-up utterance, a
\* quantity-only message or a selection update after completion leaves its quantity,
\* prices, charges and total as they were.
C18_LineItemIsImmutable ==
    [][( /\ CarriedLineItem # None
         /\ lastTurn'.path \in {"followUp", "quantity", "selection"}
         /\ conversationState' # None )
       => conversationState'[1].lineItem = CarriedLineItem]_vars

\* the state returned by the last turn, when it was a follow-up turn that was
\* answered with a state
FollowUpState ==
    IF lastTurn.path = "followUp" /\ response.state # None THEN response.state ELSE None

\* the names of the decoration methods and of the locations of a snapshot
CatalogMethodNames(pricingData) ==
    { AllDecorations(pricingData.locations)[i].decorationName :
        i \in 1..Len(AllDecorations(pricingData.locations)) }

CatalogLocationNames(pricingData) ==
    { pricingData.locations[i].locationName : i \in 1..Len(pricingData.locations) }

\* C22: in every state returned by a follow-up turn processed with a loaded catalog,
\* the decoration method and the decoration location that the turn set are names of
\* a method and of a location of the catalog snapshot: a method or location proposed
\* by the oracle that matches no catalog option is discarded, not stored verbatim.
C22_ClosedOptionsComeFromCatalog ==
    ( /\ FollowUpState # None
      /\ FollowUpState[1].pricingData[1].locations # <<>> )
    => /\ lastTurn.extracted.decorationMethod # None
          => FollowUpState[1].selectedOptions.decorationMethod[1] \in
                 CatalogMethodNames(FollowUpState[1].pricingData[1])
       /\ lastTurn.extracted.decorationLocation # None
          => FollowUpState[1].selectedOptions.decorationLocation[1] \in
                 CatalogLocationNames(FollowUpState[1].pricingData[1])

\* a first turn with a product id was answered for a snapshot none of whose
\* locations has a decoration (checked under SpecFirst)
NoMethodFirstTurn ==
    /\ lastTurn.path = "first"
    /\ response.state # None
    /\ firstIn.pricingData.parts # <<>>
    /\ CatalogMethodNames(firstIn.pricingData) = {}

\* C23: for a catalog that exposes no decoration method at any location, decoration
\* method, and with it decoration location, is never reported as a missing field, so
\* that a dialogue in which quantity and part are known reaches a line item instead
\* of asking for a decoration method forever.
C23_NoMethodCatalogNeedsNoMethod ==
    NoMethodFirstTurn =>
        /\ ~response.requiredFields[1].decorationMethod
        /\ ~response.requiredFields[1].decorationLocation
        /\ ( /\ TruthyNum(response.state[1].selectedOptions.quantity)
             /\ TruthyStr(response.state[1].selectedOptions.partId) )
           => response.kind = "summary"

\* the decoration location selected in the state the request carried
CarriedLocation ==
    IF conversationState = None THEN None
    ELSE conversationState[1].selectedOptions.decorationLocation

\* the number of locations of the snapshot that offer the selected decoration method
LocationsOfferingSelected(state) ==
    Cardinality({ i \in 1..Len(state.pricingData[1].locations) :
        \E j \in 1..Len(state.pricingData[1].locations[i].decorations) :
            Some(state.pricingData[1].locations[i].decorations[j].decorationName) =
                state.selectedOptions.decorationMethod })

\* C24: decorationLocation is filled in without the user naming a location only when
\* exactly one location offers the chosen decoration method or the catalog has a
\* single location in total; when two or more locations offer the chosen method it
\* stays missing until the user supplies it, on the first turn, on a text follow-up
\* and on a selection update alike.
C24_LocationFilledOnlyWhenUnambiguous ==
    [][( /\ lastTurn'.path \in {"first", "followUp", "selection"}
         /\ response'.state # None
         /\ "decorationLocation" \notin lastTurn'.supplied
         /\ CarriedLocation = None
         /\ response'.state[1].selectedOptions.decorationLocation # None )
       => \/ LocationsOfferingSelected(response'.state[1]) = 1
          \/ Len(response'.state[1].pricingData[1].locations) = 1]_vars

\* the request just served was a bare digit literal sent with a state in which the
\* imprint colours were still missing
DigitReplyToColorQuestion ==
    /\ conversationState # None
    /\ getRequiredFields(conversationState[1].selectedOptions).decorationColors
    /\ lastTurn'.path \in {"quantity", "followUp"}
    /\ Len(lastTurn'.userInput) = 1
    /\ IsNumeral(lastTurn'.userInput[1])
    /\ Numerals[lastTurn'.userInput[1]].digits = 1
    /\ response'.state # None

\* C25: when imprint colors is the field still being asked for and the user replies
\* with a bare digit literal n, the turn sets decorationColors = n and leaves the
\* previously established quantity unchanged.
C25_DigitAnswersColorQuestion ==
    [][DigitReplyToColorQuestion
       => /\ response'.state[1].selectedOptions.decorationColors =
                 Some(parseInt(lastTurn'.userInput[1]))
          /\ response'.state[1].selectedOptions.quantity =
                 conversationState[1].selectedOptions.quantity]_vars

---------------------------------------------------------------------------
(* Claims about generateClarifyingQuestions, checked under SpecQuestions. *)

\* what the focused generation knows of the order (ai-assistant.ts lines 566-572)
KnownToFocused ==
    [EmptyFields EXCEPT
        !.quantity = OrNum(questionsIn.parsedRequest.quantity,
                           questionsIn.selectedOptions.quantity),
        !.color = OrStr(questionsIn.parsedRequest.color, questionsIn.selectedOptions.color),
        !.decorationMethod = OrStr(questionsIn.parsedRequest.decorationMethod,
                                   questionsIn.selectedOptions.decorationMethod),
        !.decorationLocation = OrStr(questionsIn.parsedRequest.decorationLocation,
                                     questionsIn.selectedOptions.decorationLocation),
        !.decorationColors = OrNum(questionsIn.parsedRequest.decorationColors,
                                   questionsIn.selectedOptions.decorationColors)]

\* a required field is missing from the known values: the quantity; the colour when
\* the product has more than one; the decoration method when the pricing has one;
\* the location when a method is known and more than one location offers one; the
\* imprint colours when a method is known
RequiredFieldMissing(known, product, pricing) ==
    LET colors == Flatten([i \in 1..Len(product.parts) |-> product.parts[i].colors])
        offering == { i \in 1..Len(pricing.decorationLocations) :
                        Len(pricing.decorationLocations[i].decorationMethods) > 0 }
    IN  \/ ~TruthyNum(known.quantity)
        \/ ~TruthyStr(known.color) /\ Cardinality({ colors[i] : i \in 1..Len(colors) }) > 1
        \/ ~TruthyStr(known.decorationMethod) /\ offering # {}
        \/ ~TruthyStr(known.decorationLocation) /\ TruthyStr(known.decorationMethod)
              /\ Cardinality(offering) > 1
        \/ ~TruthyNum(known.decorationColors) /\ TruthyStr(known.decorationMethod)

\* C26: generateClarifyingQuestions returns an empty list exactly when no required
\* field is missing: [] when nothing is missing, and at least one question whenever
\* some required field, decoration location and imprint colors included, is still
\* missing, also when the oracle's reply cannot be parsed.
C26_NoQuestionsIffNothingMissing ==
    questionsOut.called =>
        /\ questionsOut.oracle = <<>>
               <=> MissingFields(questionsIn.parsedRequest, questionsIn.product,
                                 questionsIn.pricing) = <<>>
        /\ questionsOut.focused = <<>>
               <=> ~RequiredFieldMissing(KnownToFocused, questionsIn.product,
                                         questionsIn.pricing)

---------------------------------------------------------------------------
(* Claims about the debug log, checked under SpecLogs. *)

\* C27: the debugLogs array returned with a process-order response holds exactly the
\* entries logged while that request was processed, also when two requests are
\* processed in interleaved fashion: no entry logged for another request is in it
\* and none of its own entries has been removed by another request's clearDebugLogs.
C27_DebugLogsBelongToTheRequest ==
    \A r \in Requests :
        inFlight[r].pc = "responded" => inFlight[r].returned = inFlight[r].logged

---------------------------------------------------------------------------
(* Last claims about the dialogue, checked under Spec. *)

\* the decorationUnitsMax of the decoration a line item is priced with: the one
\* buildLineItem finds for its location and method (0: it finds none)
PricedUnitsMax(state) ==
    LET pd == state.pricingData[1]
        lineItem == state.lineItem[1]
        li == IF TruthyStr(lineItem.decorationLocation)
              THEN FindLocation(pd, lineItem.decorationLocation[1]) ELSE 0
        di == IF li # 0 /\ TruthyStr(lineItem.decorationMethod)
              THEN FindDecoration(pd.locations[li], lineItem.decorationMethod[1]) ELSE 0
    IN  IF di = 0 THEN 0 ELSE pd.locations[li].decorations[di].decorationUnitsMax

\* C28: in every line item produced after any sequence of turns, decorationColors does
\* not exceed the decorationUnitsMax of the decoration method the line item is priced
\* with; a colour count above that bound, supplied by text or by a selection update,
\* is not accepted into a priced line item.
C28_ColorsWithinUnitsMax ==
    ( /\ response.state # None
      /\ response.state[1].lineItem # None
      /\ PricedUnitsMax(response.state[1]) > 0 )
    => response.state[1].lineItem[1].decorationColors <= PricedUnitsMax(response.state[1])

\* the line item agrees with the selected options on quantity, part, decoration
\* method, decoration location and imprint colours
LineItemAgrees(lineItem, selectedOptions) ==
    /\ Some(lineItem.quantity) = selectedOptions.quantity
    /\ Some(lineItem.partId) = selectedOptions.partId
    /\ lineItem.decorationMethod = selectedOptions.decorationMethod
    /\ lineItem.decorationLocation = selectedOptions.decorationLocation
    /\ Some(lineItem.decorationColors) = selectedOptions.decorationColors

\* C29: in every conversation state returned by the turn handler, if a line item is
\* present then no required field is missing and the line item's quantity, partId,
\* decoration method, decoration location and decorationColors agree with the
\* current selectedOptions; a selection update that clears or changes a field does
\* not leave a stale line item in the state.
C29_LineItemMatchesSelection ==
    ( /\ response.state # None
      /\ response.state[1].lineItem # None )
    => /\ allRequiredFieldsFilled(getRequiredFields(response.state[1].selectedOptions))
       /\ LineItemAgrees(response.state[1].lineItem[1], response.state[1].selectedOptions)

\* the selected colour and the selected part denote the same part of the snapshot:
\* the part with the stored partId has the stored colour as its description
\* (letter case apart)
ColourDenotesPart(state) ==
    \E i \in 1..Len(state.pricingData[1].parts) :
        /\ Some(state.pricingData[1].parts[i].partId) = state.selectedOptions.partId
        /\ toLowerCase(state.pricingData[1].parts[i].partDescription) =
               toLowerCase(state.selectedOptions.color[1])

\* C30: after any turn in which a colour is resolved, selectedOptions.color and
\* selectedOptions.partId denote the same catalog part: the part whose partId is
\* stored has the stored colour as its description, also when one colour name is a
\* substring of another (BLUE and NAVY BLUE) and for every order of the parts.
C30_ColourAndPartAgree ==
    ( /\ lastTurn.path \in {"first", "followUp"}
      /\ "color" \in lastTurn.supplied
      /\ response.state # None
      /\ TruthyStr(response.state[1].selectedOptions.color)
      /\ TruthyStr(response.state[1].selectedOptions.partId) )
    => ColourDenotesPart(response.state[1])

=============================================================================
